---------------------------- MODULE Spec2Model ----------------------------
(***************************************************************************)
(* Risk scoring (app/guardian.py) and multi-label compliance tagging       *)
(* (app/compliance.py) of Klerno-Labs.                                     *)
(*                                                                         *)
(* Representation.                                                         *)
(*  - A Python str is a sequence of one-character strings.                 *)
(*  - A field value as the caller supplies it is a record [k, v]: k is the *)
(*    kind of Python value ("str", "num", "none", ...), v its payload.     *)
(*  - A Decimal is [k, v] with k in {"fin","nan","inf"}; a finite value is *)
(*    an integer (the inputs drawn are whole numbers), an infinity carries *)
(*    its sign.  Risk scores are Decimals with two places and are kept in  *)
(*    hundredths.                                                          *)
(*  - A binary64 float is [h, e]: the number (h * 2^K + e) / (B * 2^K)     *)
(*    for the base B and exponent K of its family (hundredths for the risk *)
(*    score, tenths for the tag scores), so that rounding is computed and  *)
(*    not assumed.                                                         *)
(***************************************************************************)
EXTENDS Integers, Sequences, FiniteSets, TLC

VARIABLES
    riskCalls,      \* the score_risk calls made so far: <<[tx, res]>>
    file,           \* automation/tagging.yaml as the loader finds it
    imported,       \* "no" | "ok" | "raised": the import of app.compliance
    KEYWORDS,       \* module global of app.compliance
    PRIORITY,       \* module global of app.compliance
    KEYWORD_PATTERNS, \* module global of app.compliance
    tagCalls,       \* the tag_category calls made so far: <<[tx, book, results, category]>>
    frames          \* per thread: the call it is in, its position and its locals

vars == <<riskCalls, file, imported, KEYWORDS, PRIORITY, KEYWORD_PATTERNS, tagCalls, frames>>

---------------------------------------------------------------------------
(* Bounds of the model *)

\* fees drawn are the whole numbers -1 .. MaxFee (and the unusable values)
MaxFee == 2
\* threads that call into the two modules at the same time
NThreads == 2

---------------------------------------------------------------------------
(* Python values *)

Str(s) == [k |-> "str", v |-> s]
NoneStr == [k |-> "none", v |-> <<>>]
Num(n) == [k |-> "num", v |-> n]
\* None, a non-numeric text such as "abc", float("nan"), float("inf")
NoneNum == [k |-> "none", v |-> 0]
TextNum == [k |-> "text", v |-> 0]
NaNNum == [k |-> "nan", v |-> 0]
InfNum == [k |-> "inf", v |-> 1]

Fin(n) == [k |-> "fin", v |-> n]
DecNaN == [k |-> "nan", v |-> 0]
DecInf(sign) == [k |-> "inf", v |-> sign]

Abs(n) == IF n < 0 THEN -n ELSE n

\* abs(d) for a Decimal
DecAbs(d) == IF d.k = "fin" THEN Fin(Abs(d.v)) ELSE IF d.k = "inf" THEN DecInf(1) ELSE d

\* d > n, d < n, d <= n for a Decimal d that is not NaN and an integer n
DecGt(d, n) == IF d.k = "fin" THEN d.v > n ELSE d.v > 0
DecLt(d, n) == IF d.k = "fin" THEN d.v < n ELSE d.v < 0
DecLe(d, n) == IF d.k = "fin" THEN d.v <= n ELSE d.v < 0
\* An ordering comparison with a NaN operand signals InvalidOperation
CmpRaises(d) == d.k = "nan"
\* d != 0 never raises: a NaN is unequal to everything
DecNeZero(d) == ~(d.k = "fin" /\ d.v = 0)

---------------------------------------------------------------------------
(* str operations *)

UpperCase == <<"A", "B", "C", "D", "E", "F", "G", "H", "I", "J", "K", "L", "M",
               "N", "O", "P", "Q", "R", "S", "T", "U", "V", "W", "X", "Y", "Z">>
LowerCase == <<"a", "b", "c", "d", "e", "f", "g", "h", "i", "j", "k", "l", "m",
               "n", "o", "p", "q", "r", "s", "t", "u", "v", "w", "x", "y", "z">>
Digits == {"0", "1", "2", "3", "4", "5", "6", "7", "8", "9"}

\* the characters of the strings drawn
Chars ==
    {UpperCase[i] : i \in 1..26} \cup {LowerCase[i] : i \in 1..26}
        \cup Digits \cup {" ", "_"}

LowerChar ==
    [c \in Chars |->
        IF \E i \in 1..26 : UpperCase[i] = c
        THEN LowerCase[CHOOSE i \in 1..26 : UpperCase[i] = c]
        ELSE c]

\* str.lower()
Lower(s) == [i \in 1..Len(s) |-> LowerChar[s[i]]]

IsSpace(c) == c = " "

\* str.strip()
Strip(s) ==
    IF \A i \in 1..Len(s) : IsSpace(s[i]) THEN <<>>
    ELSE LET a == CHOOSE i \in 1..Len(s) :
                     ~IsSpace(s[i]) /\ \A j \in 1..(i-1) : IsSpace(s[j])
             b == CHOOSE i \in 1..Len(s) :
                     ~IsSpace(s[i]) /\ \A j \in (i+1)..Len(s) : IsSpace(s[j])
         IN SubSeq(s, a, b)

\* w occurs in s at position i
OccursAt(w, s, i) == i + Len(w) - 1 <= Len(s) /\ SubSeq(s, i, i + Len(w) - 1) = w

\* w in s
IsSubstring(w, s) == \E i \in 1..(Len(s) - Len(w) + 1) : OccursAt(w, s, i)

---------------------------------------------------------------------------
(* binary64 *)

RECURSIVE Pow2(_)
Pow2(k) == IF k = 0 THEN 1 ELSE 2 * Pow2(k - 1)

RECURSIVE Pow2Mod(_, _)
Pow2Mod(k, m) == IF k = 0 THEN 1 % m ELSE (2 * Pow2Mod(k - 1, m)) % m

\* round to nearest, ties to even: the offset to add to a number N whose
\* residue modulo twice the grid step M is r2
RoundOffset(r2, M) ==
    LET r == r2 % M
    IN IF r = 0 THEN 0
       ELSE IF 2 * r < M \/ (2 * r = M /\ r2 < M) THEN -r
       ELSE M - r

\* the binade of a / B for whole a > 0, counted from the binade of 2^lo:
\* the largest j with B * 2^j <= a * 2^(-lo)
RECURSIVE BinadeFrom(_, _, _)
BinadeFrom(scaled, B, j) ==
    IF B * Pow2(j + 1) <= scaled THEN BinadeFrom(scaled, B, j + 1) ELSE j

\* 2^K modulo twice the grid step B * 2^j of binade j, for the two families
Residue ==
    [B \in {10, 100} |->
        [j \in 0..12 |-> Pow2Mod(IF B = 10 THEN 54 ELSE 59, 2 * B * Pow2(j))]]

\* the binary64 nearest to n / B, as [h, e] standing for
\* (h * 2^K + e) / (B * 2^K); every binary64 from 2^(K-54) up is of that form
FloatNearest(n, B, K) ==
    IF n = 0 THEN [h |-> 0, e |-> 0]
    ELSE LET a == Abs(n)
             j == BinadeFrom(a * Pow2(K - 52), B, 0)
             M == B * Pow2(j)
             r2 == (a * Residue[B][j]) % (2 * M)
             off == RoundOffset(r2, M)
         IN [h |-> n, e |-> IF n < 0 THEN -off ELSE off]

\* float(d) for a Decimal of h hundredths
FloatOfDecimal(h) == FloatNearest(h, 100, 59)

\* the float literal of t tenths (0.4, 0.6, 1.0)
FloatOfTenths(t) == FloatNearest(t, 10, 54)

\* x + y on floats of the tenths family, both positive: the exact sum,
\* rounded to the grid of its binade
FAdd(x, y) ==
    LET h == x.h + y.h
        e == x.e + y.e
        j == BinadeFrom(IF e >= 0 THEN 4 * h ELSE 4 * h - 1, 10, 0)
        M == 10 * Pow2(j)
        r2 == (h * Residue[10][j] + e) % (2 * M)
    IN [h |-> h, e |-> e + RoundOffset(r2, M)]

\* x <= y, x < y on floats of one family (|e| is far below one unit of h)
FloatLe(x, y) == x.h < y.h \/ (x.h = y.h /\ x.e <= y.e)
FloatLt(x, y) == x.h < y.h \/ (x.h = y.h /\ x.e < y.e)

---------------------------------------------------------------------------
(* app/guardian.py *)

SUSPICIOUS_WORDS ==
    { <<"s", "c", "a", "m">>, <<"p", "h", "i", "s", "h">>, <<"h", "a", "c", "k">>,
      <<"f", "r", "a", "u", "d">>, <<"r", "a", "n", "s", "o", "m">>,
      <<"m", "a", "l", "w", "a", "r", "e">>,
      <<"b", "l", "a", "c", "k", "m", "a", "i", "l">>, <<"m", "i", "x", "e", "r">>,
      <<"t", "o", "r", "n", "a", "d", "o">>,
      <<"s", "a", "n", "c", "t", "i", "o", "n">>,
      <<"d", "a", "r", "k", "n", "e", "t">> }

\* Decimal(str(x)), Decimal(default) when that raises: str(None) and other
\* non-numeric text do not parse; "nan" and "inf" do
guardian_as_decimal(x) ==
    CASE x.k = "num" -> Fin(x.v)
      [] x.k = "nan" -> DecNaN
      [] x.k = "inf" -> DecInf(x.v)
      [] OTHER -> Fin(0)

\* (s or "").strip().lower()
guardian_norm(s) == IF s.k = "str" THEN Lower(Strip(s.v)) ELSE <<>>

\* A transaction is an object, a record of its attributes, or a dict: a
\* record with the one field "dict" that holds its items.  An attribute or a
\* key that is not there has the kind "missing".
Missing == [k |-> "missing", v |-> <<>>]
Dict(items) == [dict |-> items]
IsDict(tx) == DOMAIN tx = {"dict"}

\* the attribute when the object has it, else the item of a dict, else the
\* default (a dict has none of the names asked for as an attribute)
guardian_get(tx, name, default) ==
    IF IsDict(tx)
    THEN IF tx.dict[name].k = "missing" THEN default ELSE tx.dict[name]
    ELSE IF tx[name].k = "missing" THEN default ELSE tx[name]

OUT_WORDS == { <<"o", "u", "t">>, <<"o", "u", "t", "g", "o", "i", "n", "g">>,
               <<"d", "e", "b", "i", "t">> }
IN_WORDS == { <<"i", "n">>, <<"i", "n", "c", "o", "m", "i", "n", "g">>,
              <<"c", "r", "e", "d", "i", "t">> }

\* The running state of one score_risk call: the Decimal score in hundredths
\* and the flags so far, or the fact that an exception left the function.
Raised == [status |-> "raise", score |-> 0, flags |-> <<>>, results |-> <<>>]
BumpMutant(acc, by, flag) ==
    [acc EXCEPT !.score = @ + by, !.flags = <<flag>> \o @]
Bump(acc, by, flag) ==
    [acc EXCEPT !.score = @ + by, !.flags = Append(@, flag)]

\* Direction & magnitude with the sign of the last bump slipped
DirectionMutant(acc, direction, amount) ==
    IF direction \in OUT_WORDS
    THEN LET mag == DecAbs(amount)
             a0 == Bump(acc, 0, "outgoing")
             a1 == IF DecGt(mag, 0) THEN [a0 EXCEPT !.score = @ + 10] ELSE a0
             a2 == IF DecGt(mag, 100) THEN Bump(a1, 10, "medium_outgoing") ELSE a1
             a3 == IF DecGt(mag, 1000) THEN Bump(a2, 15, "large_outgoing") ELSE a2
             a4 == IF DecGt(mag, 10000) THEN Bump(a3, -15, "very_large_outgoing") ELSE a3
         IN IF CmpRaises(mag) THEN Raised ELSE a4
    ELSE IF direction \in IN_WORDS THEN Bump(acc, -5, "incoming")
    ELSE acc

\* Direction & magnitude with thresholds that include their bound
DirectionGeMutant(acc, direction, amount) ==
    IF direction \in OUT_WORDS
    THEN LET mag == DecAbs(amount)
             a0 == Bump(acc, 0, "outgoing")
             a1 == IF DecGt(mag, 0) THEN [a0 EXCEPT !.score = @ + 10] ELSE a0
             a2 == IF ~DecLt(mag, 100) THEN Bump(a1, 10, "medium_outgoing") ELSE a1
             a3 == IF ~DecLt(mag, 1000) THEN Bump(a2, 15, "large_outgoing") ELSE a2
             a4 == IF ~DecLt(mag, 10000) THEN Bump(a3, 15, "very_large_outgoing") ELSE a3
         IN IF CmpRaises(mag) THEN Raised ELSE a4
    ELSE IF direction \in IN_WORDS THEN Bump(acc, -5, "incoming")
    ELSE acc

\* Direction & magnitude with the first magnitude bump given to inbound too
DirectionInMutant(acc, direction, amount) ==
    IF direction \in OUT_WORDS
    THEN LET mag == DecAbs(amount)
             a0 == Bump(acc, 0, "outgoing")
             a1 == IF DecGt(mag, 0) THEN [a0 EXCEPT !.score = @ + 10] ELSE a0
             a2 == IF DecGt(mag, 100) THEN Bump(a1, 10, "medium_outgoing") ELSE a1
             a3 == IF DecGt(mag, 1000) THEN Bump(a2, 15, "large_outgoing") ELSE a2
             a4 == IF DecGt(mag, 10000) THEN Bump(a3, 15, "very_large_outgoing") ELSE a3
         IN IF CmpRaises(mag) THEN Raised ELSE a4
    ELSE IF direction \in IN_WORDS
    THEN LET mag == DecAbs(amount)
             a0 == Bump(acc, -5, "incoming")
         IN IF CmpRaises(mag) THEN Raised
            ELSE IF DecGt(mag, 100) THEN [a0 EXCEPT !.score = @ + 10] ELSE a0
    ELSE acc

\* Direction & magnitude (the comparisons mag > ... raise on a NaN amount)
DirectionStep(acc, direction, amount) ==
    IF direction \in OUT_WORDS
    THEN LET mag == DecAbs(amount)
             a0 == Bump(acc, 0, "outgoing")
             a1 == IF DecGt(mag, 0) THEN [a0 EXCEPT !.score = @ + 10] ELSE a0
             a2 == IF DecGt(mag, 100) THEN Bump(a1, 10, "medium_outgoing") ELSE a1
             a3 == IF DecGt(mag, 1000) THEN Bump(a2, 15, "large_outgoing") ELSE a2
             a4 == IF DecGt(mag, 10000) THEN Bump(a3, 15, "very_large_outgoing") ELSE a3
         IN IF CmpRaises(mag) THEN Raised ELSE a4
    ELSE IF direction \in IN_WORDS THEN Bump(acc, -5, "incoming")
    ELSE acc

\* fee / abs(amount) > num / den, for a fee > 0 and an amount that is neither
\* zero nor NaN: a finite quotient is compared by cross-multiplication, a
\* finite fee over an infinite amount is 0, an infinite fee over a finite
\* amount is Infinity
RatioGt(fee, mag, num, den) ==
    IF fee.k = "fin" /\ mag.k = "fin" THEN fee.v * den > num * mag.v
    ELSE fee.k = "inf"

\* Fee pressure with ratio >= 0.01 and ratio >= 0.05 as the thresholds
FeeGeMutant(acc, fee, amount) ==
    IF acc.status = "raise" \/ CmpRaises(fee) THEN Raised
    ELSE IF ~DecGt(fee, 0) THEN acc
    ELSE LET a0 == Bump(acc, 5, "fee_present")
             mag == DecAbs(amount)
         IN IF ~DecNeZero(amount) THEN a0
            ELSE IF CmpRaises(mag) THEN Raised
            ELSE IF fee.k = "inf" /\ mag.k = "inf" THEN Raised
            ELSE LET eq(num) == fee.k = "fin" /\ mag.k = "fin" /\ fee.v * 100 = num * mag.v
                     a1 == IF RatioGt(fee, mag, 1, 100) \/ eq(1)
                           THEN Bump(a0, 5, "high_fee_ratio") ELSE a0
                 IN IF RatioGt(fee, mag, 5, 100) \/ eq(5)
                    THEN Bump(a1, 10, "very_high_fee_ratio") ELSE a1

\* Fee pressure
FeeStep(acc, fee, amount) ==
    IF acc.status = "raise" \/ CmpRaises(fee) THEN Raised
    ELSE IF ~DecGt(fee, 0) THEN acc
    ELSE LET a0 == Bump(acc, 5, "fee_present")
             mag == DecAbs(amount)
         IN IF ~DecNeZero(amount) THEN a0
            ELSE IF CmpRaises(mag) THEN Raised                   \* abs(amount) > 0
            ELSE IF fee.k = "inf" /\ mag.k = "inf" THEN Raised     \* Infinity / Infinity
            ELSE LET a1 == IF RatioGt(fee, mag, 1, 100)
                           THEN Bump(a0, 5, "high_fee_ratio") ELSE a0
                 IN IF RatioGt(fee, mag, 5, 100)
                    THEN Bump(a1, 10, "very_high_fee_ratio") ELSE a1

\* Suspicious memo keywords: one hit per word of the set found in the memo
MemoStep(acc, memo) ==
    LET hits == Cardinality({w \in SUSPICIOUS_WORDS : IsSubstring(w, memo)})
    IN IF acc.status = "raise" THEN Raised
       ELSE IF memo # <<>> /\ hits > 0 THEN Bump(acc, 20 + 5 * hits, "suspicious_memo")
       ELSE acc

\* Tag-based adjustments with one bump for each listed tag
TagStepMutant(acc, tags) ==
    LET listed == tags \cap { <<"s", "a", "n", "c", "t", "i", "o", "n", "e", "d">>,
                              <<"m", "i", "x", "e", "r">> }
    IN IF acc.status = "raise" THEN Raised
       ELSE IF listed # {}
       THEN Bump(acc, 20 * Cardinality(listed), "sanctioned_or_mixer")
       ELSE acc

\* Tag-based adjustments
TagStep(acc, tags) ==
    IF acc.status = "raise" THEN Raised
    ELSE IF <<"s", "a", "n", "c", "t", "i", "o", "n", "e", "d">> \in tags
            \/ <<"m", "i", "x", "e", "r">> \in tags
    THEN Bump(acc, 20, "sanctioned_or_mixer")
    ELSE acc

\* Internal transfers reduce risk
InternalMutant(acc, is_internal) ==
    IF acc.status = "raise" THEN Raised
    ELSE IF is_internal THEN Bump(acc, -20, "internal_transfer")
    ELSE acc
InternalStep(acc, is_internal) ==
    IF acc.status = "raise" THEN Raised
    ELSE IF is_internal THEN Bump(acc, -25, "internal_transfer")
    ELSE acc

\* the fields of the transaction as score_risk reads them
RiskInputs(tx) ==
    LET rawtags == guardian_get(tx, "tags", [k |-> "list", v |-> {}])
    IN [ memo |-> guardian_norm(guardian_get(tx, "memo", Str(<<>>))),
         amount |-> guardian_as_decimal(guardian_get(tx, "amount", Num(0))),
         fee |-> guardian_as_decimal(guardian_get(tx, "fee", Num(0))),
         direction |-> guardian_norm(guardian_get(tx, "direction", Str(<<>>))),
         is_internal |-> guardian_get(tx, "is_internal", [k |-> "bool", v |-> FALSE]).v,
         tags |-> {guardian_norm(Str(t)) : t \in rawtags.v} ]

\* score = Decimal("0.10"); flags = []
RiskStart == [status |-> "ok", score |-> 10, flags |-> <<>>, results |-> <<>>]

\* the score and flags of score_risk before the clamp
Unclamped(tx) ==
    LET in == RiskInputs(tx)
    IN InternalStep(
         TagStep(
           MemoStep(
             FeeStep(DirectionStep(RiskStart, in.direction, in.amount), in.fee, in.amount),
             in.memo),
           in.tags),
         in.is_internal)

\* Clamp to [0, 1]
ClampMutant(score) == IF score < 0 THEN 0 ELSE score
Clamp(score) == IF score < 0 THEN 0 ELSE IF score > 100 THEN 100 ELSE score

\* score_risk(tx): (float(score), flags), or the exception.  raw is the
\* Decimal score before the clamp; the caller does not receive it.
Finish(acc) ==
    IF acc.status = "raise"
    THEN [status |-> "raise", score |-> FloatOfDecimal(0), flags |-> <<>>, raw |-> 0]
    ELSE [status |-> "ok", score |-> FloatOfDecimal(Clamp(acc.score)),
          flags |-> acc.flags, raw |-> acc.score]
score_risk(tx) == Finish(Unclamped(tx))

---------------------------------------------------------------------------
(* automation/tagging.yaml *)

\* What yaml.safe_load makes of the file: parse is "error" (YAMLError),
\* "none" (an empty document), "list" (a document that is no mapping) or
\* "map"; keywords and priority are the mapping's values under those keys
\* (k = "absent" when the key is missing, "list" for a keywords value that
\* is a list and no mapping).
YamlFile(parse, keywords, priority) ==
    [exists |-> TRUE, parse |-> parse, keywords |-> keywords, priority |-> priority]
AbsentValue == [k |-> "absent", v |-> <<>>]
AbsentFile ==
    [exists |-> FALSE, parse |-> "none", keywords |-> AbsentValue, priority |-> AbsentValue]

---------------------------------------------------------------------------
(* Threads *)

Threads == 1..NThreads

\* the locals of a call: the running score and flags of score_risk, the
\* results list of tag_categories
NoLocals == [status |-> "ok", score |-> 0, flags |-> <<>>, results |-> <<>>]
\* a thread that is in no call
IdleFrame ==
    [op |-> "none", pc |-> "idle", tx |-> <<>>, book |-> <<>>, acc |-> NoLocals,
     out |-> <<>>, overlap |-> FALSE]
IdleFrames == [th \in Threads |-> IdleFrame]

---------------------------------------------------------------------------
(* The transactions scored *)

Bool(b) == [k |-> "bool", v |-> b]
TagList(S) == [k |-> "list", v |-> S]
NoneTags == [k |-> "none", v |-> {}]

RiskMemos ==
    { NoneStr, Str(<<>>),
      Str(<<"t", "o", "r", "n", "a", "d", "o", " ", "M", "I", "X", "E", "R">>),
      Str(<<"s", "c", "a", "m", " ", "S", "c", "a", "m">>) }
RiskAmounts ==
    { Num(n) : n \in {0, 10, -20, 100, 101, 1000, -1001, 6000, 10000, 10001} }
        \cup { TextNum, NaNNum, InfNum }
RiskFees == { Num(n) : n \in -1..MaxFee } \cup { NoneNum, NaNNum, InfNum }
RiskDirections ==
    { NoneStr, Str(<<" ", "O", "U", "T", " ">>), Str(<<"i", "n">>) }
RiskInternal == { Bool(FALSE), Bool(TRUE) }
RiskTags ==
    { NoneTags, TagList({ <<" ", "M", "i", "x", "e", "r">> }),
      TagList({ <<"s", "a", "n", "c", "t", "i", "o", "n", "e", "d">>,
                <<"m", "i", "x", "e", "r">> }) }

RiskField ==
    [ memo |-> RiskMemos, amount |-> RiskAmounts, fee |-> RiskFees,
      direction |-> RiskDirections, is_internal |-> RiskInternal,
      tags |-> RiskTags ]
RiskFieldNames == DOMAIN RiskField

RiskTxs ==
    [ memo : RiskMemos, amount : RiskAmounts, fee : RiskFees,
      direction : RiskDirections, is_internal : RiskInternal, tags : RiskTags ]

\* what one call leaves behind: its argument and its result
RiskCall(t) == [tx |-> t, res |-> score_risk(t)]

\* A caller scores a transaction, then scores a copy of it with one field
\* set anew.
ScoreRisk ==
    /\ \/ /\ riskCalls = <<>>
          /\ \E t \in RiskTxs : riskCalls' = <<RiskCall(t)>>
       \/ /\ Len(riskCalls) = 1
          /\ \E name \in RiskFieldNames : \E val \in RiskField[name] :
                riskCalls' = Append(riskCalls,
                                    RiskCall([riskCalls[1].tx EXCEPT ![name] = val]))
    /\ UNCHANGED <<file, imported, KEYWORDS, PRIORITY, KEYWORD_PATTERNS, tagCalls, frames>>

InitRisk ==
    /\ riskCalls = <<>>
    /\ file = AbsentFile
    /\ imported = "no"
    /\ KEYWORDS = <<>>
    /\ PRIORITY = <<>>
    /\ KEYWORD_PATTERNS = <<>>
    /\ tagCalls = <<>>
    /\ frames = IdleFrames

SpecRisk == InitRisk /\ [][ScoreRisk]_vars

---------------------------------------------------------------------------
(* app/compliance.py: configuration *)

\* A keyword table is the sequence of its (category, words) items in key
\* order, as a dict keeps them.
DEFAULT_KEYWORDS ==
    << [cat |-> "income",
        words |-> << <<"s", "a", "l", "a", "r", "y">>,
                     <<"a", "i", "r", "d", "r", "o", "p">>,
                     <<"r", "e", "w", "a", "r", "d">>,
                     <<"i", "n", "t", "e", "r", "e", "s", "t">>,
                     <<"y", "i", "e", "l", "d">> >>],
       [cat |-> "fee",
        words |-> << <<"f", "e", "e">>, <<"g", "a", "s">>,
                     <<"n", "e", "t", "w", "o", "r", "k">> >>],
       [cat |-> "trade",
        words |-> << <<"s", "w", "a", "p">>, <<"t", "r", "a", "d", "e">>,
                     <<"e", "x", "c", "h", "a", "n", "g", "e">> >>],
       [cat |-> "transfer",
        words |-> << <<"t", "r", "a", "n", "s", "f", "e", "r">>,
                     <<"s", "e", "n", "d">>,
                     <<"r", "e", "c", "e", "i", "v", "e">> >>] >>
DEFAULT_PRIORITY == <<"fee", "trade", "income", "transfer">>

\* the loader with the existence test inverted
LoadMutant(f) ==
    IF f.exists THEN [status |-> "ok", kw |-> DEFAULT_KEYWORDS, pr |-> DEFAULT_PRIORITY,
                      kwIsMap |-> TRUE]
    ELSE [status |-> "raise", kw |-> <<>>, pr |-> <<>>, kwIsMap |-> FALSE]

\* _load_tagging_config(path): the pair returned, or the exception
\* (yaml.YAMLError from safe_load, AttributeError from data.get on a list)
load_tagging_config(f) ==
    IF ~f.exists
    THEN [status |-> "ok", kw |-> DEFAULT_KEYWORDS, pr |-> DEFAULT_PRIORITY, kwIsMap |-> TRUE]
    ELSE IF f.parse \in {"error", "list"}
    THEN [status |-> "raise", kw |-> <<>>, pr |-> <<>>, kwIsMap |-> FALSE]
    ELSE LET data == f.parse = "map"       \* else: None or {}
             kwGiven == data /\ f.keywords.k \in {"map", "list"} /\ f.keywords.v # <<>>
             prGiven == data /\ f.priority.k = "list" /\ f.priority.v # <<>>
         IN [status |-> "ok",
             kw |-> IF kwGiven THEN f.keywords.v ELSE DEFAULT_KEYWORDS,
             pr |-> IF prGiven THEN f.priority.v ELSE DEFAULT_PRIORITY,
             kwIsMap |-> ~kwGiven \/ f.keywords.k = "map"]

\* the compiled patterns: \bword\b, IGNORECASE, one per word, per category
Patterns(kw) == [i \in 1..Len(kw) |-> [cat |-> kw[i].cat, patterns |-> kw[i].words]]

\* Importing app.compliance runs lines 34-38: the loader, then the pattern
\* table (KEYWORDS.items() raises AttributeError on a list).
ImportCompliance ==
    /\ imported = "no"
    /\ LET r == load_tagging_config(file)
       IN IF r.status = "ok" /\ r.kwIsMap
          THEN /\ imported' = "ok"
               /\ KEYWORDS' = r.kw
               /\ PRIORITY' = r.pr
               /\ KEYWORD_PATTERNS' = Patterns(r.kw)
          ELSE /\ imported' = "raised"
               /\ UNCHANGED <<KEYWORDS, PRIORITY, KEYWORD_PATTERNS>>
    /\ UNCHANGED <<riskCalls, file, tagCalls, frames>>

---------------------------------------------------------------------------
(* app/compliance.py: helpers *)

\* None and unparseable text give 0; "nan" and "inf" parse
compliance_as_decimal(x) ==
    CASE x.k = "num" -> Fin(x.v)
      [] x.k = "nan" -> DecNaN
      [] x.k = "inf" -> DecInf(x.v)
      [] OTHER -> Fin(0)

\* (text or "").strip()
compliance_norm(s) == IF s.k = "str" THEN Strip(s.v) ELSE <<>>

\* getattr(tx, name, None): a dict has none of the names as an attribute
compliance_getattr(tx, name, none) ==
    IF IsDict(tx) THEN none
    ELSE IF tx[name].k = "missing" THEN none ELSE tx[name]

\* \w
WordChars == Chars \ {" "}
IsWordChar(c) == c \in WordChars

\* \b at the gap before position i of s (i in 1..Len(s)+1)
WordBoundary(s, i) ==
    LET before == i > 1 /\ IsWordChar(s[i - 1])
        after == i <= Len(s) /\ IsWordChar(s[i])
    IN before # after

\* the search without the \b on either side
PatSearchMutant(w, memo) == IsSubstring(Lower(w), Lower(memo))

\* pat.search(memo) for the pattern \bw\b with IGNORECASE
PatSearch(w, memo) ==
    LET lw == Lower(w)
        lm == Lower(memo)
    IN \E i \in 1..(Len(memo) - Len(w) + 1) :
          /\ OccursAt(lw, lm, i)
          /\ WordBoundary(memo, i)
          /\ WordBoundary(memo, i + Len(w))

\* AddressBook(owned), and no book at all
AddressBook(owned) == [k |-> "book", owned |-> {Lower(a) : a \in owned}]
NoBook == [k |-> "none", owned |-> {}]

is_owned(book, addr) == addr # <<>> /\ Lower(addr) \in book.owned

\* the addresses looked up as given, neither stripped nor lowered
InternalTransferMutant(tx, book) ==
    IF book.k = "none" THEN FALSE
    ELSE LET fa == compliance_getattr(tx, "from_address", NoneStr).v
             ta == compliance_getattr(tx, "to_address", NoneStr).v
         IN fa # <<>> /\ ta # <<>> /\ fa \in book.owned /\ ta \in book.owned

is_internal_transfer(tx, book) ==
    IF book.k = "none" THEN FALSE
    ELSE LET fa == Lower(compliance_norm(compliance_getattr(tx, "from_address", NoneStr)))
             ta == Lower(compliance_norm(compliance_getattr(tx, "to_address", NoneStr)))
         IN fa # <<>> /\ ta # <<>> /\ is_owned(book, fa) /\ is_owned(book, ta)

---------------------------------------------------------------------------
(* app/compliance.py: tag_categories and tag_category *)

\* the float literals 0.4, 0.6, 1.0
F04 == FloatOfTenths(4)
F06 == FloatOfTenths(6)
F10 == FloatOfTenths(10)

\* the weights with 1.0 for either direction
WeightsDirectionMutant(name) ==
    CASE name = "keyword" -> F06
      [] name = "fee_signal" -> F10
      [] name = "direction_in" -> F10
      [] name = "direction_out" -> F10
      [] name = "internal_transfer" -> F10
WeightsMutant(name) ==
    CASE name = "keyword" -> F06
      [] name = "fee_signal" -> F04
      [] name = "direction_in" -> F04
      [] name = "direction_out" -> F04
      [] name = "internal_transfer" -> F10
weights(name) ==
    CASE name = "keyword" -> F06
      [] name = "fee_signal" -> F10
      [] name = "direction_in" -> F04
      [] name = "direction_out" -> F04
      [] name = "internal_transfer" -> F10

\* TagReason(category, reason); a keyword reason carries its pattern's word
TagReason(cat, text, word) == [category |-> cat, text |-> text, pat |-> word]

IndexOf(results, cat) ==
    IF \E i \in 1..Len(results) : results[i].category = cat
    THEN CHOOSE i \in 1..Len(results) :
            results[i].category = cat /\ \A j \in 1..(i - 1) : results[j].category # cat
    ELSE 0

\* AddSignal with found.score = w in the place of found.score += w
AddSignalAssignMutant(results, cat, w, reason) ==
    LET i == IndexOf(results, cat)
    IN IF i > 0
       THEN [results EXCEPT ![i] = [@ EXCEPT !.score = w,
                                             !.reasons = Append(@, reason)]]
       ELSE Append(results, [category |-> cat, score |-> w, reasons |-> <<reason>>])

\* AddSignal without the search: every signal appends an entry of its own
AddSignalAppendMutant(results, cat, w, reason) ==
    Append(results, [category |-> cat, score |-> w, reasons |-> <<reason>>])

\* AddSignal without the else branch: a category not yet listed is dropped
AddSignalMutant(results, cat, w, reason) ==
    LET i == IndexOf(results, cat)
    IN IF i > 0
       THEN [results EXCEPT ![i] = [@ EXCEPT !.score = FAdd(@, w),
                                             !.reasons = Append(@, reason)]]
       ELSE results

\* found = next((r for r in results if r.category == cat), None), then either
\* found.score += w; found.reasons.append(reason) or results.append(TagResult)
AddSignal(results, cat, w, reason) ==
    LET i == IndexOf(results, cat)
    IN IF i > 0
       THEN [results EXCEPT ![i] = [@ EXCEPT !.score = FAdd(@, w),
                                             !.reasons = Append(@, reason)]]
       ELSE Append(results, [category |-> cat, score |-> w, reasons |-> <<reason>>])

\* 2) Keyword hits per category: the loops over KEYWORD_PATTERNS.items() and
\* over each category's patterns, from item c, pattern p on
RECURSIVE KeywordHits(_, _, _, _, _)
KeywordHits(results, patterns, memo, c, p) ==
    IF c > Len(patterns) THEN results
    ELSE IF p > Len(patterns[c].patterns)
    THEN KeywordHits(results, patterns, memo, c + 1, 1)
    ELSE LET w == patterns[c].patterns[p]
             cat == patterns[c].cat
             next == IF PatSearch(w, memo)
                     THEN AddSignal(results, cat, weights("keyword"),
                                    TagReason(cat, "Keyword match", w))
                     ELSE results
         IN KeywordHits(next, patterns, memo, c, p + 1)

\* an insertion that puts r before the entries of its own score
InsertSortedMutant(sorted, r) ==
    LET k == Cardinality({ i \in 1..Len(sorted) : FloatLt(r.score, sorted[i].score) })
    IN SubSeq(sorted, 1, k) \o <<r>> \o SubSeq(sorted, k + 1, Len(sorted))

\* list.sort(key=score, reverse=True): stable, so equal scores keep their
\* order; r goes after every entry whose score is not below its own
RECURSIVE InsertSorted(_, _)
InsertSorted(sorted, r) ==
    IF sorted = <<>> THEN <<r>>
    ELSE IF FloatLt(Head(sorted).score, r.score) THEN <<r>> \o sorted
    ELSE <<Head(sorted)>> \o InsertSorted(Tail(sorted), r)

RECURSIVE SortByScore(_, _)
SortByScore(results, n) ==
    IF n = 0 THEN <<>> ELSE InsertSorted(SortByScore(results, n - 1), results[n])

\* the exception of a comparison with a NaN
TagRaised == Raised
\* results: List[TagResult] = []
TagStart == [status |-> "ok", score |-> 0, flags |-> <<>>, results |-> <<>>]

\* 1) Fees heuristic: fee > 0 and amount <= 0, the second comparison only
\* after the first
FeesHeuristic(acc, tx) ==
    LET fee == compliance_as_decimal(compliance_getattr(tx, "fee", NoneNum))
        amount == compliance_as_decimal(compliance_getattr(tx, "amount", NoneNum))
    IN IF acc.status = "raise" THEN TagRaised
       ELSE IF CmpRaises(fee) \/ (DecGt(fee, 0) /\ CmpRaises(amount)) THEN TagRaised
       ELSE IF DecGt(fee, 0) /\ DecLe(amount, 0)
       THEN [acc EXCEPT !.results =
               Append(@, [category |-> "fee", score |-> weights("fee_signal"),
                          reasons |-> <<TagReason("fee", "Positive fee + nonpositive amount", <<>>)>>])]
       ELSE acc

\* 2) Keyword hits per category
KeywordStep(acc, tx, patterns) ==
    LET memo == compliance_norm(compliance_getattr(tx, "memo", NoneStr))
    IN IF acc.status = "raise" THEN TagRaised
       ELSE [acc EXCEPT !.results = KeywordHits(@, patterns, memo, 1, 1)]

\* 3) Internal transfers boost
InternalBoost(acc, tx, book) ==
    IF acc.status = "raise" THEN TagRaised
    ELSE IF is_internal_transfer(tx, book)
    THEN [acc EXCEPT !.results =
            AddSignal(@, "transfer", weights("internal_transfer"),
                      TagReason("transfer", "Internal transfer (same owner)", <<>>))]
    ELSE acc

\* Direction soft signal without .lower()
DirectionSignalMutant(acc, tx) ==
    LET direction == compliance_norm(compliance_getattr(tx, "direction", NoneStr))
    IN IF acc.status = "raise" THEN TagRaised
       ELSE IF direction \in IN_WORDS
       THEN [acc EXCEPT !.results =
               AddSignal(@, "income", weights("direction_in"),
                         TagReason("income", "Direction suggests inbound", <<>>))]
       ELSE IF direction \in OUT_WORDS
       THEN [acc EXCEPT !.results =
               AddSignal(@, "expense", weights("direction_out"),
                         TagReason("expense", "Direction suggests outbound", <<>>))]
       ELSE acc

DirectionSignal(acc, tx) ==
    LET direction == Lower(compliance_norm(compliance_getattr(tx, "direction", NoneStr)))
    IN IF acc.status = "raise" THEN TagRaised
       ELSE IF direction \in IN_WORDS
       THEN [acc EXCEPT !.results =
               AddSignal(@, "income", weights("direction_in"),
                         TagReason("income", "Direction suggests inbound", <<>>))]
       ELSE IF direction \in OUT_WORDS
       THEN [acc EXCEPT !.results =
               AddSignal(@, "expense", weights("direction_out"),
                         TagReason("expense", "Direction suggests outbound", <<>>))]
       ELSE acc

\* results.sort(key=lambda r: r.score, reverse=True)
SortStep(acc) ==
    IF acc.status = "raise" THEN TagRaised
    ELSE [acc EXCEPT !.results = SortByScore(@, Len(@))]

\* tag_categories(tx, address_book) under the loaded patterns: the sorted
\* list, or the exception of a comparison with a NaN
tag_categories(tx, book, patterns) ==
    LET a == SortStep(
               DirectionSignal(
                 InternalBoost(KeywordStep(FeesHeuristic(TagStart, tx), tx, patterns), tx, book),
                 tx))
    IN [status |-> a.status, results |-> a.results]

\* the priority list walked over every entry, not the contenders alone
PickAnyMutant(results, priority) ==
    IF results = <<>> THEN "unknown"
    ELSE LET prefs == priority \o <<"expense", "unknown">>
             hit(p) == \E i \in 1..Len(results) : results[i].category = prefs[p]
         IN IF \E p \in 1..Len(prefs) : hit(p)
            THEN prefs[CHOOSE p \in 1..Len(prefs) : hit(p) /\ \A q \in 1..(p - 1) : ~hit(q)]
            ELSE results[1].category

\* the first contender, whatever the priority list says
PickMutant(results, priority) ==
    IF results = <<>> THEN "unknown" ELSE results[1].category

\* the last contender when the priority list names none of them
PickLastMutant(results, priority) ==
    IF results = <<>> THEN "unknown"
    ELSE LET top_score == results[1].score
             contenders == SelectSeq(results, LAMBDA r : r.score = top_score)
             prefs == priority \o <<"expense", "unknown">>
             hit(p) == \E i \in 1..Len(contenders) : contenders[i].category = prefs[p]
         IN IF Len(contenders) = 1 THEN contenders[1].category
            ELSE IF \E p \in 1..Len(prefs) : hit(p)
            THEN prefs[CHOOSE p \in 1..Len(prefs) : hit(p) /\ \A q \in 1..(p - 1) : ~hit(q)]
            ELSE contenders[Len(contenders)].category

\* tag_category, from the list tag_categories returned
PickCategory(results, priority) ==
    IF results = <<>> THEN "unknown"
    ELSE LET top_score == results[1].score
             contenders == SelectSeq(results, LAMBDA r : r.score = top_score)
             prefs == priority \o <<"expense", "unknown">>
             hit(p) == \E i \in 1..Len(contenders) : contenders[i].category = prefs[p]
         IN IF Len(contenders) = 1 THEN contenders[1].category
            ELSE IF \E p \in 1..Len(prefs) : hit(p)
            THEN prefs[CHOOSE p \in 1..Len(prefs) : hit(p) /\ \A q \in 1..(p - 1) : ~hit(q)]
            ELSE contenders[1].category

\* tag_category(tx, address_book): the list of its tag_categories call and
\* the winner, or the exception
Winner(r, priority) ==
    [status |-> r.status, results |-> r.results,
     category |-> IF r.status = "ok" THEN PickCategory(r.results, priority) ELSE "unknown"]
tag_category(tx, book, patterns, priority) ==
    Winner(tag_categories(tx, book, patterns), priority)

---------------------------------------------------------------------------
(* The configuration files and the transactions tagged *)

\* the default table with its keys in the opposite order
ReversedKeywords == [i \in 1..4 |-> DEFAULT_KEYWORDS[5 - i]]
\* categories of the file's own, none of them in the priority list
GiftKeywords ==
    << [cat |-> "gift", words |-> << <<"g", "i", "f", "t">> >>],
       [cat |-> "donation", words |-> << <<"g", "i", "f", "t">>, <<"a", "l", "m", "s">> >>] >>
DonationFirstKeywords == <<GiftKeywords[2], GiftKeywords[1]>>
\* a file that names a category "unknown"
UnknownKeywords ==
    << [cat |-> "unknown", words |-> << <<"m", "i", "s", "c">>, <<"g", "a", "s">> >>],
       [cat |-> "fee", words |-> << <<"f", "e", "e">> >>] >>

MapValue(v) == [k |-> "map", v |-> v]
ListValue(v) == [k |-> "list", v |-> v]

ConfigFiles ==
    { AbsentFile,
      YamlFile("error", AbsentValue, AbsentValue),
      YamlFile("list", AbsentValue, AbsentValue),
      YamlFile("none", AbsentValue, AbsentValue),
      YamlFile("map", ListValue(<< [cat |-> "fee", words |-> <<>>] >>), AbsentValue),
      YamlFile("map", MapValue(ReversedKeywords), AbsentValue),
      YamlFile("map", MapValue(GiftKeywords), ListValue(<<"trade", "fee">>)),
      YamlFile("map", MapValue(DonationFirstKeywords), ListValue(<<"trade", "fee">>)),
      YamlFile("map", MapValue(UnknownKeywords), AbsentValue) }

TagMemos ==
    { NoneStr,
      Str(<<"n", "e", "t", "w", "o", "r", "k", " ", "f", "e", "e">>),
      Str(<<"g", "a", "s", "o", "l", "i", "n", "e", " ", "p", "u", "r", "c", "h", "a", "s", "e">>),
      Str(<<"S", "a", "l", "a", "r", "y", " ", "s", "w", "a", "p">>),
      Str(<<"m", "i", "s", "c", " ", "g", "i", "f", "t">>),
      Str(<<"s", "a", "l", "a", "r", "y", " ", "r", "e", "w", "a", "r", "d", " ",
            "y", "i", "e", "l", "d", " ", "s", "e", "n", "d", " ",
            "r", "e", "c", "e", "i", "v", "e">>) }
TagFees == { Num(n) : n \in 0..MaxFee } \cup { NoneNum, NaNNum }
TagAmounts == { Num(-1), Num(0), Num(5), TextNum, NaNNum }
TagDirections ==
    { NoneStr, Str(<<" ", "O", "U", "T", " ">>), Str(<<"i", "n">>) }
TagFromAddresses == { NoneStr, Str(<<"r", "A">>), Str(<<"r", "X">>) }
TagToAddresses == { NoneStr, Str(<<" ", "R", "B">>) }
TagBooks ==
    { NoBook, AddressBook({ <<"r", "A">>, <<"r", "B">> }),
      AddressBook({ <<"r", "A">>, <<" ", "R", "B">> }) }

TagTxs ==
    [ memo : TagMemos, fee : TagFees, amount : TagAmounts, direction : TagDirections,
      from_address : TagFromAddresses, to_address : TagToAddresses ]

\* what one call leaves behind: its arguments and its result
TagCall(t, b) ==
    [tx |-> t, book |-> b, res |-> tag_category(t, b, KEYWORD_PATTERNS, PRIORITY)]

\* A caller of the imported module classifies a transaction.
TagCategory ==
    /\ imported = "ok"
    /\ tagCalls = <<>>
    /\ \E t \in TagTxs : \E b \in TagBooks : tagCalls' = <<TagCall(t, b)>>
    /\ UNCHANGED <<riskCalls, file, imported, KEYWORDS, PRIORITY, KEYWORD_PATTERNS, frames>>

InitTag ==
    /\ riskCalls = <<>>
    /\ file \in ConfigFiles
    /\ imported = "no"
    /\ KEYWORDS = <<>>
    /\ PRIORITY = <<>>
    /\ KEYWORD_PATTERNS = <<>>
    /\ tagCalls = <<>>
    /\ frames = IdleFrames

NextTag == ImportCompliance \/ TagCategory

SpecTag == InitTag /\ [][NextTag]_vars

---------------------------------------------------------------------------
(* One record scored and then tagged, as the callers in admin.py and        *)
(* main.py do, first as an object and then as a dict of the same items.     *)

SeedMemos ==
    { Str(<<>>),
      Str(<<"n", "e", "t", "w", "o", "r", "k", " ", "f", "e", "e">>),
      Str(<<"s", "c", "a", "m">>) }
SeedAmounts == { Num(-1), Num(0), Num(5) }
SeedFees == { Num(n) : n \in 0..MaxFee } \cup { NaNNum }
SeedDirections ==
    { Missing, NoneStr, Str(<<>>),
      Str(<<"i", "n">>), Str(<<"I", "N", "C", "O", "M", "I", "N", "G">>),
      Str(<<"C", "r", "e", "d", "i", "t">>),
      Str(<<" ", "O", "U", "T", " ">>), Str(<<"o", "u", "t", "g", "o", "i", "n", "g">>),
      Str(<<" ", "D", "e", "b", "i", "t">>),
      Str(<<"i", "n", "w", "a", "r", "d">>), Str(<<"o", "u", "t", " ", "o", "f">>) }

SeedTxs ==
    [ memo : SeedMemos, amount : SeedAmounts, fee : SeedFees,
      direction : SeedDirections, is_internal : {Missing}, tags : {Missing},
      from_address : {Missing}, to_address : {Missing} ]

\* risk, flags = score_risk(tx); cat = tag_category(tx)
Classify ==
    /\ imported = "ok"
    /\ \/ /\ riskCalls = <<>>
          /\ \E t \in SeedTxs :
                /\ riskCalls' = <<RiskCall(t)>>
                /\ tagCalls' = <<TagCall(t, NoBook)>>
       \/ /\ Len(riskCalls) = 1
          /\ LET d == Dict(riskCalls[1].tx)
             IN /\ riskCalls' = Append(riskCalls, RiskCall(d))
                /\ tagCalls' = Append(tagCalls, TagCall(d, NoBook))
    /\ UNCHANGED <<file, imported, KEYWORDS, PRIORITY, KEYWORD_PATTERNS, frames>>

SeedFiles == { AbsentFile, YamlFile("map", MapValue(ReversedKeywords), AbsentValue) }

InitSeed ==
    /\ riskCalls = <<>>
    /\ file \in SeedFiles
    /\ imported = "no"
    /\ KEYWORDS = <<>>
    /\ PRIORITY = <<>>
    /\ KEYWORD_PATTERNS = <<>>
    /\ tagCalls = <<>>
    /\ frames = IdleFrames

NextSeed == ImportCompliance \/ Classify

SpecSeed == InitSeed /\ [][NextSeed]_vars

---------------------------------------------------------------------------
(* Threads calling score_risk and tag_category at the same time.  A thread  *)
(* runs its call one rule at a time; between two rules any other thread may *)
(* run.                                                                     *)

ConcRiskTxs ==
    { [ memo |-> Str(<<"t", "o", "r", "n", "a", "d", "o", " ", "M", "I", "X", "E", "R">>),
        amount |-> Num(10001), fee |-> Num(1),
        direction |-> Str(<<" ", "O", "U", "T", " ">>), is_internal |-> Bool(FALSE),
        tags |-> TagList({ <<" ", "M", "i", "x", "e", "r">> }) ],
      [ memo |-> NoneStr, amount |-> NaNNum, fee |-> Num(0),
        direction |-> Str(<<" ", "O", "U", "T", " ">>), is_internal |-> Bool(FALSE),
        tags |-> NoneTags ] }

ConcTagCalls ==
    { [ tx |-> [ memo |-> Str(<<"m", "i", "s", "c", " ", "g", "i", "f", "t">>),
                 fee |-> Num(1), amount |-> Num(-1),
                 direction |-> Str(<<" ", "O", "U", "T", " ">>),
                 from_address |-> Str(<<"r", "A">>), to_address |-> Str(<<" ", "R", "B">>) ],
        book |-> AddressBook({ <<"r", "A">>, <<"r", "B">> }) ],
      [ tx |-> [ memo |-> Str(<<"n", "e", "t", "w", "o", "r", "k", " ", "f", "e", "e">>),
                 fee |-> NaNNum, amount |-> Num(0), direction |-> NoneStr,
                 from_address |-> NoneStr, to_address |-> NoneStr ],
        book |-> NoBook ] }

\* some other thread is inside a call
Overlapping(th) == \E o \in Threads \ {th} : frames[o].pc \notin {"idle", "done"}

\* a thread's locals are those of some other frame
LocalsMutant(fs, th) == fs[1].acc
\* the locals of the call thread th is in
Locals(fs, th) == fs[th].acc

\* a thread enters score_risk(tx)
BeginRisk(th) ==
    /\ frames[th].pc = "idle"
    /\ \E t \in ConcRiskTxs :
          frames' = [frames EXCEPT ![th] =
                        [op |-> "risk", pc |-> "direction", tx |-> t, book |-> NoBook,
                         acc |-> RiskStart, out |-> <<>>, overlap |-> Overlapping(th)]]
    /\ UNCHANGED <<riskCalls, file, imported, KEYWORDS, PRIORITY, KEYWORD_PATTERNS, tagCalls>>

\* a thread enters tag_category(tx, address_book) of the imported module
BeginTag(th) ==
    /\ frames[th].pc = "idle"
    /\ imported = "ok"
    /\ \E c \in ConcTagCalls :
          frames' = [frames EXCEPT ![th] =
                        [op |-> "tag", pc |-> "fee", tx |-> c.tx, book |-> c.book,
                         acc |-> TagStart, out |-> <<>>, overlap |-> Overlapping(th)]]
    /\ UNCHANGED <<riskCalls, file, imported, KEYWORDS, PRIORITY, KEYWORD_PATTERNS, tagCalls>>

\* a thread inside score_risk runs its next rule, or the clamp and return
RiskRule(th) ==
    /\ frames[th].op = "risk"
    /\ frames[th].pc \notin {"idle", "done"}
    /\ LET f == frames[th]
           acc == Locals(frames, th)
           in == RiskInputs(f.tx)
           g == [f EXCEPT !.overlap = @ \/ Overlapping(th)]
       IN frames' = [frames EXCEPT ![th] =
            CASE f.pc = "direction" ->
                    [g EXCEPT !.acc = DirectionStep(acc, in.direction, in.amount), !.pc = "fee"]
              [] f.pc = "fee" ->
                    [g EXCEPT !.acc = FeeStep(acc, in.fee, in.amount), !.pc = "memo"]
              [] f.pc = "memo" ->
                    [g EXCEPT !.acc = MemoStep(acc, in.memo), !.pc = "tags"]
              [] f.pc = "tags" ->
                    [g EXCEPT !.acc = TagStep(acc, in.tags), !.pc = "internal"]
              [] f.pc = "internal" ->
                    [g EXCEPT !.acc = InternalStep(acc, in.is_internal), !.pc = "clamp"]
              [] f.pc = "clamp" ->
                    [g EXCEPT !.out = Finish(acc), !.pc = "done"]]
    /\ UNCHANGED <<riskCalls, file, imported, KEYWORDS, PRIORITY, KEYWORD_PATTERNS, tagCalls>>

\* tag_category in one step, extending the module's PRIORITY in place with
\* the two fallback names
TagRuleMutant(th) ==
    /\ frames[th].op = "tag"
    /\ frames[th].pc \notin {"idle", "done"}
    /\ LET f == frames[th]
       IN frames' = [frames EXCEPT ![th] =
                       [f EXCEPT !.pc = "done",
                                 !.out = tag_category(f.tx, f.book, KEYWORD_PATTERNS, PRIORITY)]]
    /\ PRIORITY' = PRIORITY \o <<"expense", "unknown">>
    /\ UNCHANGED <<riskCalls, file, imported, KEYWORDS, KEYWORD_PATTERNS, tagCalls>>

\* a thread inside tag_category runs its next signal, the sort, or the choice
\* of the winner and return; the module globals are read when the rule runs
TagRule(th) ==
    /\ frames[th].op = "tag"
    /\ frames[th].pc \notin {"idle", "done"}
    /\ LET f == frames[th]
           acc == Locals(frames, th)
           g == [f EXCEPT !.overlap = @ \/ Overlapping(th)]
       IN frames' = [frames EXCEPT ![th] =
            CASE f.pc = "fee" ->
                    [g EXCEPT !.acc = FeesHeuristic(acc, f.tx), !.pc = "keywords"]
              [] f.pc = "keywords" ->
                    [g EXCEPT !.acc = KeywordStep(acc, f.tx, KEYWORD_PATTERNS), !.pc = "internal"]
              [] f.pc = "internal" ->
                    [g EXCEPT !.acc = InternalBoost(acc, f.tx, f.book), !.pc = "direction"]
              [] f.pc = "direction" ->
                    [g EXCEPT !.acc = DirectionSignal(acc, f.tx), !.pc = "sort"]
              [] f.pc = "sort" ->
                    [g EXCEPT !.acc = SortStep(acc), !.pc = "pick"]
              [] f.pc = "pick" ->
                    [g EXCEPT !.out = Winner(acc, PRIORITY), !.pc = "done"]]
    /\ UNCHANGED <<riskCalls, file, imported, KEYWORDS, PRIORITY, KEYWORD_PATTERNS, tagCalls>>

ConcFiles ==
    { AbsentFile,
      YamlFile("map", MapValue(DonationFirstKeywords), ListValue(<<"trade", "fee">>)) }

InitConc ==
    /\ riskCalls = <<>>
    /\ file \in ConcFiles
    /\ imported = "no"
    /\ KEYWORDS = <<>>
    /\ PRIORITY = <<>>
    /\ KEYWORD_PATTERNS = <<>>
    /\ tagCalls = <<>>
    /\ frames = IdleFrames

NextConc ==
    \/ ImportCompliance
    \/ \E th \in Threads : BeginRisk(th)
    \/ \E th \in Threads : BeginTag(th)
    \/ \E th \in Threads : RiskRule(th)
    \/ \E th \in Threads : TagRule(th)

SpecConc == InitConc /\ [][NextConc]_vars

---------------------------------------------------------------------------
(* Statements about score_risk, checked under SpecRisk *)

Calls == 1..Len(riskCalls)
Returned(c) == c.res.status = "ok"
\* the two transactions agree on every field but the named one
SameExcept(t, u, name) == \A n \in RiskFieldNames \ {name} : t[n] = u[n]
IsOutgoing(t) == guardian_norm(t.direction) \in OUT_WORDS
HasFlag(c, flag) == \E i \in 1..Len(c.res.flags) : c.res.flags[i] = flag
\* a value Decimal() reads as an ordinary number
Usable(x) == x.k = "num"
\* |a| <= |b| for the amounts as the scorer reads them (false of a NaN)
AbsLe(a, b) ==
    LET x == DecAbs(guardian_as_decimal(a))
        y == DecAbs(guardian_as_decimal(b))
    IN /\ x.k # "nan" /\ y.k # "nan"
       /\ \/ y.k = "inf"
          \/ x.k = "fin" /\ y.k = "fin" /\ x.v <= y.v
Unclipped(c) == c.res.raw >= 0 /\ c.res.raw <= 100

\* C1: every score that score_risk returns lies in [0, 1], whatever the sum
\* before the clamp was, and a call whose amount and fee are ordinary numbers
\* always returns.
C1_ScoreInUnitInterval ==
    \A i \in Calls :
        LET c == riskCalls[i]
        IN /\ Returned(c) =>
                /\ FloatLe(FloatOfDecimal(0), c.res.score)
                /\ FloatLe(c.res.score, FloatOfDecimal(100))
           /\ (Usable(c.tx.amount) /\ Usable(c.tx.fee)) => Returned(c)

\* a call whose sum before the clamp exceeded 1 and that returned 1.0
C1_Witness ==
    \E i \in Calls :
        /\ Returned(riskCalls[i])
        /\ riskCalls[i].res.raw > 100
        /\ riskCalls[i].res.score = [h |-> 100, e |-> 0]

\* two returned calls on outgoing transactions that differ in the amount
\* alone, the first amount no larger in magnitude than the second
AmountPair(i, j) ==
    /\ Returned(riskCalls[i]) /\ Returned(riskCalls[j])
    /\ IsOutgoing(riskCalls[i].tx) /\ IsOutgoing(riskCalls[j].tx)
    /\ SameExcept(riskCalls[i].tx, riskCalls[j].tx, "amount")
    /\ AbsLe(riskCalls[i].tx.amount, riskCalls[j].tx.amount)
SameFeeRatioFlags(c, d) ==
    /\ HasFlag(c, "high_fee_ratio") <=> HasFlag(d, "high_fee_ratio")
    /\ HasFlag(c, "very_high_fee_ratio") <=> HasFlag(d, "very_high_fee_ratio")

\* C2 as stated: of two outgoing transactions that differ in the amount alone,
\* the one with the larger |amount| never scores lower.
C2_MonotoneAsStated ==
    \A i, j \in Calls :
        AmountPair(i, j) => FloatLe(riskCalls[i].res.score, riskCalls[j].res.score)

\* C2 (amended): of two outgoing transactions that differ in the amount alone
\* and for which the fee-ratio rules fire alike (as they do whenever the fee
\* is not positive), the one with the larger |amount| never scores lower.
C2_MonotoneSameFeeRatio ==
    \A i, j \in Calls :
        (AmountPair(i, j) /\ SameFeeRatioFlags(riskCalls[i], riskCalls[j]))
            => FloatLe(riskCalls[i].res.score, riskCalls[j].res.score)

\* a pair with a positive fee, alike fee-ratio flags and a strictly larger
\* amount that scores strictly higher
C2_Witness ==
    /\ Len(riskCalls) = 2
    /\ AmountPair(1, 2)
    /\ SameFeeRatioFlags(riskCalls[1], riskCalls[2])
    /\ HasFlag(riskCalls[1], "fee_present")
    /\ ~AbsLe(riskCalls[2].tx.amount, riskCalls[1].tx.amount)
    /\ FloatLt(riskCalls[1].res.score, riskCalls[2].res.score)

\* two returned calls that differ in is_internal alone: i without, j with
InternalPair(i, j) ==
    /\ Returned(riskCalls[i]) /\ Returned(riskCalls[j])
    /\ SameExcept(riskCalls[i].tx, riskCalls[j].tx, "is_internal")
    /\ ~riskCalls[i].tx.is_internal.v /\ riskCalls[j].tx.is_internal.v

\* C5 as stated: the is_internal variant's score before the clamp is lower by
\* exactly 0.25, and when neither score is clamped the two returned scores
\* differ by exactly 0.25.
C5_DiscountAsStated ==
    \A i, j \in Calls :
        InternalPair(i, j) =>
            /\ riskCalls[j].res.raw = riskCalls[i].res.raw - 25
            /\ (Unclipped(riskCalls[i]) /\ Unclipped(riskCalls[j])) =>
                  /\ riskCalls[i].res.score.h - riskCalls[j].res.score.h = 25
                  /\ riskCalls[i].res.score.e = riskCalls[j].res.score.e

\* C5 (amended): the is_internal variant's score before the clamp is lower by
\* exactly 0.25, and when neither score is clamped the two returned floats
\* are the roundings of Decimals that differ by exactly 0.25, so that they
\* differ by 0.25 to within 2^-53 (6400 units of 2^-59 / 100).
C5_DiscountBeforeRounding ==
    \A i, j \in Calls :
        InternalPair(i, j) =>
            /\ riskCalls[j].res.raw = riskCalls[i].res.raw - 25
            /\ (Unclipped(riskCalls[i]) /\ Unclipped(riskCalls[j])) =>
                  /\ riskCalls[i].res.score.h - riskCalls[j].res.score.h = 25
                  /\ Abs(riskCalls[i].res.score.e - riskCalls[j].res.score.e) <= 6400

\* a pair that differs in is_internal alone, neither score clamped
C5_Witness ==
    /\ Len(riskCalls) = 2
    /\ \E i, j \in Calls :
          /\ InternalPair(i, j)
          /\ Unclipped(riskCalls[i]) /\ Unclipped(riskCalls[j])
          /\ riskCalls[j].res.score.h > 0

\* C6 as stated, for score_risk: no call raises, an amount or fee that is not
\* a usable number gives the result that zero gives, and a None memo or
\* direction gives the result that the empty string gives.
C6_MalformedDegradesToZero ==
    /\ \A i \in Calls : Returned(riskCalls[i])
    /\ \A i, j \in Calls : \A name \in {"amount", "fee"} :
          ( /\ SameExcept(riskCalls[i].tx, riskCalls[j].tx, name)
            /\ ~Usable(riskCalls[i].tx[name])
            /\ riskCalls[j].tx[name] = Num(0) )
          => riskCalls[i].res = riskCalls[j].res
    /\ \A i, j \in Calls : \A name \in {"memo", "direction"} :
          ( /\ SameExcept(riskCalls[i].tx, riskCalls[j].tx, name)
            /\ riskCalls[i].tx[name] = NoneStr
            /\ riskCalls[j].tx[name] = Str(<<>>) )
          => riskCalls[i].res = riskCalls[j].res

---------------------------------------------------------------------------
(* Statements about the configuration loader, tag_categories and            *)
(* tag_category, checked under SpecTag                                      *)

TCalls == 1..Len(tagCalls)
TReturned(c) == c.res.status = "ok"
DefaultConfig == KEYWORDS = DEFAULT_KEYWORDS /\ PRIORITY = DEFAULT_PRIORITY

\* the categories tied at the top score of a returned list
Tied(c) ==
    { c.res.results[i].category :
        i \in { k \in 1..Len(c.res.results) :
                  c.res.results[k].score = c.res.results[1].score } }
Prefs == PRIORITY \o <<"expense", "unknown">>
InPrefs(cat) == \E p \in 1..Len(Prefs) : Prefs[p] = cat
\* the place of a category's first occurrence in the extended priority list
Rank(cat) == CHOOSE p \in 1..Len(Prefs) : Prefs[p] = cat /\ \A q \in 1..(p - 1) : Prefs[q] # cat

\* C3 as stated: whenever two or more categories are tied at the top score,
\* tag_category returns the tied category that comes first in
\* PRIORITY + ["expense", "unknown"], whatever the order of the tied entries
\* in the result and of the keys of the keyword table.
C3_TieBreakAsStated ==
    \A n \in TCalls :
        LET c == tagCalls[n]
        IN ( /\ TReturned(c) /\ c.res.results # <<>>
             /\ Cardinality(Tied(c)) >= 2 )
           => /\ c.res.category \in Tied(c)
              /\ InPrefs(c.res.category)
              /\ \A t \in Tied(c) : InPrefs(t) => Rank(c.res.category) <= Rank(t)

\* C3 (amended): when two or more categories are tied at the top score and
\* one of them is in PRIORITY + ["expense", "unknown"], tag_category returns
\* the tied category that comes first in that list, whatever the order of the
\* tied entries in the result and of the keys of the keyword table; when none
\* of them is in that list it returns the first entry of the result.
C3_TieBreakByPriority ==
    \A n \in TCalls :
        LET c == tagCalls[n]
        IN ( /\ TReturned(c) /\ c.res.results # <<>>
             /\ Cardinality(Tied(c)) >= 2 )
           => IF \E t \in Tied(c) : InPrefs(t)
              THEN /\ c.res.category \in Tied(c)
                   /\ InPrefs(c.res.category)
                   /\ \A t \in Tied(c) : InPrefs(t) => Rank(c.res.category) <= Rank(t)
              ELSE c.res.category = c.res.results[1].category

\* a tie won by a category that is not the first of the tied entries
C3_Witness ==
    \E n \in TCalls :
        /\ TReturned(tagCalls[n]) /\ tagCalls[n].res.results # <<>>
        /\ Cardinality(Tied(tagCalls[n])) >= 2
        /\ InPrefs(tagCalls[n].res.category)
        /\ tagCalls[n].res.category # tagCalls[n].res.results[1].category

\* the file is there and is not a mapping of the expected shape
CorruptFile ==
    /\ file.exists
    /\ \/ file.parse \in {"error", "list"}
       \/ file.parse = "map" /\ file.keywords.k = "list"

\* C7 as stated: with a file that does not parse, or has not the expected
\* mapping shape, loading does not raise and yields the built-in defaults.
C7_CorruptFileFallsBack ==
    (CorruptFile /\ imported # "no") =>
        /\ imported = "ok"
        /\ DefaultConfig

\* C8: with no file the loader returns exactly the built-in defaults, the
\* import succeeds, and tag_category classifies with those defaults.
C8_AbsentFileGivesDefaults ==
    (~file.exists /\ imported # "no") =>
        /\ imported = "ok"
        /\ DefaultConfig
        /\ KEYWORD_PATTERNS = Patterns(DEFAULT_KEYWORDS)
        /\ \A n \in TCalls :
              tagCalls[n].res =
                  tag_category(tagCalls[n].tx, tagCalls[n].book,
                               Patterns(DEFAULT_KEYWORDS), DEFAULT_PRIORITY)

\* no file, and the memo "network fee" with a positive fee classified as fee
C8_Witness ==
    /\ ~file.exists /\ imported = "ok"
    /\ \E n \in TCalls :
          /\ tagCalls[n].tx.memo = Str(<<"n", "e", "t", "w", "o", "r", "k", " ", "f", "e", "e">>)
          /\ tagCalls[n].tx.fee = Num(1)
          /\ tagCalls[n].res.category = "fee"

\* the four signals, read off the arguments of a call
FeeFires(t) ==
    /\ DecGt(compliance_as_decimal(t.fee), 0)
    /\ DecLe(compliance_as_decimal(t.amount), 0)
KeywordFires(t) ==
    \E i \in 1..Len(KEYWORD_PATTERNS) : \E p \in 1..Len(KEYWORD_PATTERNS[i].patterns) :
        PatSearch(KEYWORD_PATTERNS[i].patterns[p], compliance_norm(t.memo))
DirectionFires(t) ==
    Lower(compliance_norm(t.direction)) \in IN_WORDS \cup OUT_WORDS
NoSignal(c) ==
    /\ ~FeeFires(c.tx)
    /\ ~KeywordFires(c.tx)
    /\ ~is_internal_transfer(c.tx, c.book)
    /\ ~DirectionFires(c.tx)

\* C9 as stated: tag_category returns "unknown" if and only if
\* tag_categories returns the empty list, which is when no signal fired.
C9_UnknownIffEmptyAsStated ==
    \A n \in TCalls :
        LET c == tagCalls[n]
        IN TReturned(c) =>
              /\ (c.res.category = "unknown") <=> (c.res.results = <<>>)
              /\ (c.res.results = <<>>) <=> NoSignal(c)

\* C9 (amended): tag_categories returns the empty list exactly when no signal
\* fired, and tag_category then returns "unknown"; it returns "unknown" only
\* then, provided the keyword table has no category named "unknown".
C9_UnknownIffEmpty ==
    \A n \in TCalls :
        LET c == tagCalls[n]
        IN TReturned(c) =>
              /\ (c.res.results = <<>>) <=> NoSignal(c)
              /\ (c.res.results = <<>>) => c.res.category = "unknown"
              /\ ( /\ c.res.category = "unknown"
                   /\ \A i \in 1..Len(KEYWORDS) : KEYWORDS[i].cat # "unknown" )
                 => c.res.results = <<>>

\* a call with a memo in which no keyword matches and no other signal: unknown
C9_Witness ==
    \E n \in TCalls :
        /\ TReturned(tagCalls[n])
        /\ tagCalls[n].tx.memo.k = "str"
        /\ NoSignal(tagCalls[n])
        /\ tagCalls[n].res.results = <<>>
        /\ tagCalls[n].res.category = "unknown"

FeeReason == TagReason("fee", "Positive fee + nonpositive amount", <<>>)
HasReason(r, reason) == \E k \in 1..Len(r.reasons) : r.reasons[k] = reason

\* C10: when fee > 0 and amount <= 0 the result lists "fee" with a score of
\* at least 1.0 and the reason "Positive fee + nonpositive amount"; under the
\* default configuration tag_category returns "fee" unless another category
\* scores strictly higher.
C10_FeeHeuristic ==
    \A n \in TCalls :
        LET c == tagCalls[n]
            rs == c.res.results
        IN (TReturned(c) /\ FeeFires(c.tx)) =>
              \E i \in 1..Len(rs) :
                  /\ rs[i].category = "fee"
                  /\ FloatLe(F10, rs[i].score)
                  /\ HasReason(rs[i], FeeReason)
                  /\ DefaultConfig =>
                        \/ c.res.category = "fee"
                        \/ \E j \in 1..Len(rs) :
                              rs[j].category # "fee" /\ FloatLt(rs[i].score, rs[j].score)

\* the heuristic fired, another category ties with fee at the top, fee wins
C10_Witness ==
    /\ DefaultConfig
    /\ \E n \in TCalls :
          LET c == tagCalls[n]
          IN /\ TReturned(c) /\ FeeFires(c.tx)
             /\ Cardinality(Tied(c)) >= 2
             /\ "fee" \in Tied(c)
             /\ c.res.category = "fee"

\* an address that the book owns once stripped and lowered
Owns(book, a) ==
    /\ book.k = "book" /\ a.k = "str"
    /\ Strip(a.v) # <<>> /\ Lower(Strip(a.v)) \in book.owned
BothOwned(c) == Owns(c.book, c.tx.from_address) /\ Owns(c.book, c.tx.to_address)
EmptyMemo(t) == t.memo.k = "none" \/ Strip(t.memo.v) = <<>>

WholeWordAt(w, m, i) ==
    /\ OccursAt(Lower(w), Lower(m), i)
    /\ (i = 1 \/ ~IsWordChar(m[i - 1]))
    /\ (i + Len(w) > Len(m) \/ ~IsWordChar(m[i + Len(w)]))
WholeWordIn(w, m) == \E i \in 1..Len(m) : WholeWordAt(w, m, i)
\* w is in m, whatever the case, and nowhere as a whole word
OnlyInsideWord(w, m) == IsSubstring(Lower(w), Lower(m)) /\ ~WholeWordIn(w, m)
\* the result credits category cat with a match of keyword w
KeywordReason(c, cat, w) ==
    \E k \in 1..Len(c.res.results) :
        /\ c.res.results[k].category = cat
        /\ HasReason(c.res.results[k], TagReason(cat, "Keyword match", w))
\* nothing but the memo can give a signal
MemoAlone(c) ==
    /\ ~FeeFires(c.tx)
    /\ ~DirectionFires(c.tx)
    /\ ~BothOwned(c)

\* C12 as stated: a keyword gives its category a signal exactly when it is in
\* the memo as a whole word, whatever the case; a memo that holds a
\* category's keyword only inside a longer word, with no other signal, never
\* makes tag_category return that category.
C12_WholeWordAsStated ==
    \A n \in TCalls :
        LET c == tagCalls[n]
            m == compliance_norm(c.tx.memo)
        IN TReturned(c) =>
              \A i \in 1..Len(KEYWORDS) :
                 LET cat == KEYWORDS[i].cat
                     ws == KEYWORDS[i].words
                 IN /\ \A p \in 1..Len(ws) :
                          KeywordReason(c, cat, ws[p]) <=> WholeWordIn(ws[p], m)
                    /\ ( /\ MemoAlone(c)
                         /\ \E p \in 1..Len(ws) : OnlyInsideWord(ws[p], m)
                         /\ \A p \in 1..Len(ws) : ~WholeWordIn(ws[p], m) )
                       => c.res.category # cat

\* C12 (amended): as stated, the last part for a category other than
\* "unknown", which tag_category returns when the result is empty.
C12_WholeWord ==
    \A n \in TCalls :
        LET c == tagCalls[n]
            m == compliance_norm(c.tx.memo)
        IN TReturned(c) =>
              \A i \in 1..Len(KEYWORDS) :
                 LET cat == KEYWORDS[i].cat
                     ws == KEYWORDS[i].words
                 IN /\ \A p \in 1..Len(ws) :
                          KeywordReason(c, cat, ws[p]) <=> WholeWordIn(ws[p], m)
                    /\ ( /\ MemoAlone(c)
                         /\ \E p \in 1..Len(ws) : OnlyInsideWord(ws[p], m)
                         /\ \A p \in 1..Len(ws) : ~WholeWordIn(ws[p], m)
                         /\ cat # "unknown" )
                       => c.res.category # cat

\* the memo "gasoline purchase" alone under the default table: "gas" is in
\* it, fee gets no signal and is not returned
C12_Witness ==
    /\ DefaultConfig
    /\ \E n \in TCalls :
          LET c == tagCalls[n]
              m == compliance_norm(c.tx.memo)
          IN /\ TReturned(c) /\ MemoAlone(c)
             /\ OnlyInsideWord(<<"g", "a", "s">>, m)
             /\ ~KeywordReason(c, "fee", <<"g", "a", "s">>)
             /\ c.res.category # "fee"

\* a keyword written in lower case credited for a memo that has it capitalised
C12_WitnessCase ==
    \E n \in TCalls :
        /\ TReturned(tagCalls[n])
        /\ KeywordReason(tagCalls[n], "income", <<"s", "a", "l", "a", "r", "y">>)
        /\ ~IsSubstring(<<"s", "a", "l", "a", "r", "y">>, compliance_norm(tagCalls[n].tx.memo))

\* the categories a call's arguments give a signal to
Signalled(c) ==
    LET m == compliance_norm(c.tx.memo)
    IN (IF FeeFires(c.tx) THEN {"fee"} ELSE {})
       \cup { KEYWORDS[i].cat :
                i \in { k \in 1..Len(KEYWORDS) :
                          \E p \in 1..Len(KEYWORDS[k].words) :
                              WholeWordIn(KEYWORDS[k].words[p], m) } }
       \cup (IF BothOwned(c) THEN {"transfer"} ELSE {})
       \cup (IF Lower(compliance_norm(c.tx.direction)) \in IN_WORDS THEN {"income"} ELSE {})
       \cup (IF Lower(compliance_norm(c.tx.direction)) \in OUT_WORDS THEN {"expense"} ELSE {})

\* C13: in every list tag_categories returns, no category is listed twice,
\* every entry has a score above zero and at least one reason, and the
\* categories listed are exactly those that a signal fired for.
C13_OneEntryPerSignalledCategory ==
    \A n \in TCalls :
        LET c == tagCalls[n]
            rs == c.res.results
        IN TReturned(c) =>
              /\ \A i, j \in 1..Len(rs) : rs[i].category = rs[j].category => i = j
              /\ \A i \in 1..Len(rs) :
                    /\ FloatLt(FloatOfTenths(0), rs[i].score)
                    /\ rs[i].reasons # <<>>
              /\ { rs[i].category : i \in 1..Len(rs) } = Signalled(c)

\* a category that three signals fired for, listed once with three reasons,
\* beside another listed category
C13_Witness ==
    \E n \in TCalls :
        LET rs == tagCalls[n].res.results
        IN /\ TReturned(tagCalls[n])
           /\ Len(rs) >= 2
           /\ \E i \in 1..Len(rs) : Len(rs[i].reasons) = 3

\* when a listed category got its first signal: 0 for the fee heuristic, the
\* place of its key in the keyword table for a keyword, then the internal
\* transfer, then the direction
EncounterRank(c, cat) ==
    LET m == compliance_norm(c.tx.memo)
        hit(k) == /\ KEYWORDS[k].cat = cat
                  /\ \E p \in 1..Len(KEYWORDS[k].words) : WholeWordIn(KEYWORDS[k].words[p], m)
    IN IF cat = "fee" /\ FeeFires(c.tx) THEN 0
       ELSE IF \E k \in 1..Len(KEYWORDS) : hit(k)
       THEN CHOOSE k \in 1..Len(KEYWORDS) : hit(k)
       ELSE IF cat = "transfer" /\ BothOwned(c) THEN Len(KEYWORDS) + 1
       ELSE Len(KEYWORDS) + 2

\* C14: the list tag_categories returns is in non-increasing order of score,
\* and entries of equal score are in the order in which their categories got
\* their first signal.
C14_SortedStable ==
    \A n \in TCalls :
        LET c == tagCalls[n]
            rs == c.res.results
        IN TReturned(c) =>
              \A i, j \in 1..Len(rs) :
                  i < j =>
                     /\ FloatLe(rs[j].score, rs[i].score)
                     /\ rs[i].score = rs[j].score =>
                           EncounterRank(c, rs[i].category) < EncounterRank(c, rs[j].category)

\* a list in which the sort moved a later category ahead of earlier ones and
\* left two entries of equal score in their encounter order
C14_Witness ==
    \E n \in TCalls :
        LET c == tagCalls[n]
            rs == c.res.results
        IN /\ TReturned(c)
           /\ \E i, j \in 1..Len(rs) :
                 i < j /\ EncounterRank(c, rs[i].category) > EncounterRank(c, rs[j].category)
           /\ \E i, j \in 1..Len(rs) : i < j /\ rs[i].score = rs[j].score

\* the address is, whatever the case, a member of the book's owned set
Member(book, a) ==
    /\ book.k = "book"
    /\ a.k = "str" /\ a.v # <<>>
    /\ \E o \in book.owned : Lower(o) = Lower(a.v)
\* the result credits "transfer" with the internal-transfer signal
TransferSignal(c) ==
    \E k \in 1..Len(c.res.results) :
        /\ c.res.results[k].category = "transfer"
        /\ HasReason(c.res.results[k],
                     TagReason("transfer", "Internal transfer (same owner)", <<>>))

\* C18 as stated: is_owned is case-insensitive and false for None and the
\* empty string, and the internal-transfer signal fires exactly when a book
\* is supplied and both addresses are non-empty and, whatever the case,
\* members of its owned set.
C18_SignalIffBothMembers ==
    \A n \in TCalls :
        LET c == tagCalls[n]
        IN TReturned(c) =>
              /\ \A a \in {c.tx.from_address, c.tx.to_address} :
                    is_owned(c.book, a.v) <=> Member(c.book, a)
              /\ TransferSignal(c) <=>
                    (Member(c.book, c.tx.from_address) /\ Member(c.book, c.tx.to_address))

\* C21: when the list is not empty, the category tag_category returns is in
\* the list with a score no entry exceeds; when one category alone has the
\* top score it is returned, wherever the priority list puts it.
C21_WinnerHasMaxScore ==
    \A n \in TCalls :
        LET c == tagCalls[n]
            rs == c.res.results
        IN (TReturned(c) /\ rs # <<>>) =>
              /\ \E i \in 1..Len(rs) :
                    /\ rs[i].category = c.res.category
                    /\ \A k \in 1..Len(rs) : FloatLe(rs[k].score, rs[i].score)
              /\ \A i \in 1..Len(rs) :
                    (\A k \in 1..Len(rs) : k # i => FloatLt(rs[k].score, rs[i].score))
                        => c.res.category = rs[i].category

\* one category alone at the top, returned although a listed category of a
\* lower score comes before it in the priority list
C21_Witness ==
    \E n \in TCalls :
        LET c == tagCalls[n]
            rs == c.res.results
        IN /\ TReturned(c) /\ Len(rs) >= 2
           /\ FloatLt(rs[2].score, rs[1].score)
           /\ c.res.category = rs[1].category
           /\ InPrefs(rs[1].category)
           /\ \E k \in 2..Len(rs) :
                 InPrefs(rs[k].category) /\ Rank(rs[k].category) < Rank(rs[1].category)

\* the direction of t, trimmed and in lower case, is an inbound or an
\* outbound word
Inbound(t) == t.direction.k = "str" /\ Lower(Strip(t.direction.v)) \in IN_WORDS
Outbound(t) == t.direction.k = "str" /\ Lower(Strip(t.direction.v)) \in OUT_WORDS

\* the signals that the arguments of a call give to category cat, in the
\* order fee heuristic, keywords in the order of the table, internal
\* transfer, direction: each with its weight and its reason
SignalsFor(c, cat) ==
    LET m == compliance_norm(c.tx.memo)
        one(b, w, text) ==
            IF b THEN << [w |-> w, reason |-> TagReason(cat, text, <<>>)] >> ELSE <<>>
        words == IF \E k \in 1..Len(KEYWORDS) : KEYWORDS[k].cat = cat
                 THEN KEYWORDS[CHOOSE k \in 1..Len(KEYWORDS) : KEYWORDS[k].cat = cat].words
                 ELSE <<>>
        found == SelectSeq(words, LAMBDA w : WholeWordIn(w, m))
    IN one(cat = "fee" /\ FeeFires(c.tx), F10, "Positive fee + nonpositive amount")
       \o [i \in 1..Len(found) |->
              [w |-> F06, reason |-> TagReason(cat, "Keyword match", found[i])]]
       \o one(cat = "transfer" /\ is_internal_transfer(c.tx, c.book), F10,
              "Internal transfer (same owner)")
       \o one(cat = "income" /\ Inbound(c.tx), F04, "Direction suggests inbound")
       \o one(cat = "expense" /\ Outbound(c.tx), F04, "Direction suggests outbound")

\* a weight in tenths when its signal fired
Tenths(b, by) == IF b THEN by ELSE 0

\* the weights of the first n signals, added one after the other
RECURSIVE WeightSum(_, _)
WeightSum(sigs, n) ==
    IF n = 1 THEN sigs[1].w ELSE FAdd(WeightSum(sigs, n - 1), sigs[n].w)

\* C22: the score of every listed category is the sum of the weights of the
\* signals that fired for it (1.0 fee heuristic, 0.6 for each of its keywords
\* in the memo, 1.0 internal transfer, 0.4 direction), and its reasons are one
\* for each of those signals, labelled with the category, in signal order.
C22_AdditiveAccumulation ==
    \A n \in TCalls :
        LET c == tagCalls[n]
            rs == c.res.results
        IN TReturned(c) =>
              \A i \in 1..Len(rs) :
                 LET sigs == SignalsFor(c, rs[i].category)
                 IN /\ sigs # <<>>
                    /\ rs[i].reasons = [k \in 1..Len(sigs) |-> sigs[k].reason]
                    /\ rs[i].score = WeightSum(sigs, Len(sigs))
                    /\ rs[i].score.h =
                            Tenths(rs[i].category = "fee" /\ FeeFires(c.tx), 10)
                          + 6 * Cardinality({ k \in 1..Len(sigs) :
                                                sigs[k].reason.text = "Keyword match" })
                          + Tenths(rs[i].category = "transfer"
                                     /\ is_internal_transfer(c.tx, c.book), 10)
                          + Tenths(rs[i].category = "income" /\ Inbound(c.tx), 4)
                          + Tenths(rs[i].category = "expense" /\ Outbound(c.tx), 4)

\* a category with the fee heuristic, two keywords and so three reasons
C22_Witness ==
    \E n \in TCalls :
        LET c == tagCalls[n]
            rs == c.res.results
        IN /\ TReturned(c)
           /\ \E i \in 1..Len(rs) :
                 /\ rs[i].category = "fee"
                 /\ Len(rs[i].reasons) = 3
                 /\ rs[i].score.h = 22
           /\ \E i \in 1..Len(rs) : rs[i].category = "expense" /\ rs[i].score = F04

\* the places of the result whose score is the greatest of the list
TopPlaces(c) ==
    { i \in 1..Len(c.res.results) :
        \A k \in 1..Len(c.res.results) :
            FloatLe(c.res.results[k].score, c.res.results[i].score) }

\* C27: when several categories are tied at the greatest score and none of
\* them is in PRIORITY + ["expense", "unknown"], tag_category returns the
\* tied category that stands first in the result.
C27_FallbackFirstTied ==
    \A n \in TCalls :
        LET c == tagCalls[n]
            top == TopPlaces(c)
        IN ( /\ TReturned(c)
             /\ Cardinality(top) >= 2
             /\ \A i \in top : ~InPrefs(c.res.results[i].category) )
           => \E i \in top :
                 /\ \A k \in top : i <= k
                 /\ c.res.category = c.res.results[i].category

\* "gift" and "donation" tied under a priority list that names neither, the
\* table listing "donation" first: "donation" is returned
C27_Witness ==
    \E n \in TCalls :
        LET c == tagCalls[n]
        IN /\ TReturned(c)
           /\ PRIORITY = <<"trade", "fee">>
           /\ Len(c.res.results) = 2
           /\ TopPlaces(c) = {1, 2}
           /\ c.res.results[1].category = "donation"
           /\ c.res.results[2].category = "gift"
           /\ c.res.category = "donation"

\* the fee heuristic, a keyword or the internal transfer test fired
OtherSignalFired(c) ==
    FeeFires(c.tx) \/ KeywordFires(c.tx) \/ is_internal_transfer(c.tx, c.book)
\* the entry has a reason that is not a direction reason
HasOtherReason(r) ==
    \E k \in 1..Len(r.reasons) :
        r.reasons[k].text \notin {"Direction suggests inbound", "Direction suggests outbound"}

\* C28: when the fee heuristic, a keyword or the internal transfer test fired
\* for some category, tag_category returns a category whose entry has a
\* reason other than the direction; and under the default configuration it
\* returns "expense" only when "expense" is the only entry of the result.
C28_DirectionOverridden ==
    \A n \in TCalls :
        LET c == tagCalls[n]
            rs == c.res.results
        IN TReturned(c) =>
              /\ OtherSignalFired(c) =>
                    \E i \in 1..Len(rs) :
                        rs[i].category = c.res.category /\ HasOtherReason(rs[i])
              /\ (DefaultConfig /\ c.res.category = "expense") =>
                    Len(rs) = 1 /\ rs[1].category = "expense"

\* an outbound transaction with a keyword in the memo: "expense" is listed
\* and another category is returned
C28_Witness ==
    \E n \in TCalls :
        LET c == tagCalls[n]
            rs == c.res.results
        IN /\ TReturned(c) /\ DefaultConfig
           /\ KeywordFires(c.tx) /\ ~FeeFires(c.tx)
           /\ \E i \in 1..Len(rs) : rs[i].category = "expense" /\ ~HasOtherReason(rs[i])
           /\ c.res.category # "expense"

\* the places of the result whose sum of weights, in exact tenths, is the
\* greatest of the list
ExactTopPlaces(c) ==
    { i \in 1..Len(c.res.results) :
        \A k \in 1..Len(c.res.results) :
            c.res.results[k].score.h <= c.res.results[i].score.h }

\* C30: categories whose weights add up to the same decimal value have equal
\* scores, and when several categories share the greatest decimal sum and
\* one of them is in PRIORITY + ["expense", "unknown"], tag_category returns
\* the one of them that comes first in that list.
C30_EqualSumsTie ==
    \A n \in TCalls :
        LET c == tagCalls[n]
            rs == c.res.results
            top == { rs[i].category : i \in ExactTopPlaces(c) }
        IN (TReturned(c) /\ rs # <<>>) =>
              /\ \A i, k \in 1..Len(rs) :
                    rs[i].score.h = rs[k].score.h => rs[i].score = rs[k].score
              /\ (\E t \in top : InPrefs(t)) =>
                    /\ c.res.category \in top
                    /\ InPrefs(c.res.category)
                    /\ \A t \in top : InPrefs(t) => Rank(c.res.category) <= Rank(t)

---------------------------------------------------------------------------
(* Further statements about score_risk, checked under SpecRisk *)

\* |amount| > n for the amount as the scorer reads it
MagGt(t, n) ==
    LET mag == DecAbs(guardian_as_decimal(t.amount))
    IN mag.k # "nan" /\ DecGt(mag, n)
\* no fee, no memo, no tag, not internal
Plain(t) ==
    /\ t.fee \in {Num(0), NoneNum}
    /\ t.memo \in {NoneStr, Str(<<>>)}
    /\ t.tags = NoneTags
    /\ ~t.is_internal.v
Step(b, by) == IF b THEN by ELSE 0

\* C15: for an outgoing transaction the flags medium_outgoing, large_outgoing
\* and very_large_outgoing are there exactly when |amount| > 100, > 1000 and
\* > 10000, the bumps are 0.10 (|amount| > 0), 0.10, 0.15 and 0.15 on the base
\* of 0.10; with |amount| > 1000 the flags outgoing, medium_outgoing and
\* large_outgoing are there and the score is above zero; an outgoing 6000
\* with no other signal scores exactly 0.45.
C15_StrictCumulativeThresholds ==
    \A i \in Calls :
        LET c == riskCalls[i]
            t == c.tx
        IN (Returned(c) /\ IsOutgoing(t)) =>
              /\ HasFlag(c, "outgoing") /\ ~HasFlag(c, "incoming")
              /\ HasFlag(c, "medium_outgoing") <=> MagGt(t, 100)
              /\ HasFlag(c, "large_outgoing") <=> MagGt(t, 1000)
              /\ HasFlag(c, "very_large_outgoing") <=> MagGt(t, 10000)
              /\ Plain(t) =>
                    c.res.raw = 10 + Step(MagGt(t, 0), 10) + Step(MagGt(t, 100), 10)
                                   + Step(MagGt(t, 1000), 15) + Step(MagGt(t, 10000), 15)
              /\ MagGt(t, 1000) => FloatLt(FloatOfDecimal(0), c.res.score)
              /\ (Plain(t) /\ t.amount = Num(6000)) => c.res.score = FloatOfDecimal(45)

\* an outgoing 6000 with no other signal, and then the same with an amount
\* on a threshold, which does not get that threshold's flag
C15_Witness ==
    /\ Len(riskCalls) = 2
    /\ Returned(riskCalls[1]) /\ Returned(riskCalls[2])
    /\ IsOutgoing(riskCalls[1].tx) /\ Plain(riskCalls[1].tx)
    /\ riskCalls[1].tx.amount = Num(6000)
    /\ riskCalls[1].res.flags = <<"outgoing", "medium_outgoing", "large_outgoing">>
    /\ riskCalls[2].tx.amount = Num(1000)
    /\ riskCalls[2].res.flags = <<"outgoing", "medium_outgoing">>

\* the suspicious terms found in the memo as the scorer reads it
Hits(t) ==
    LET m == IF t.memo.k = "str" THEN Lower(Strip(t.memo.v)) ELSE <<>>
    IN Cardinality({ w \in SUSPICIOUS_WORDS : IsSubstring(w, m) })
\* the tag set holds "sanctioned" or "mixer", whatever the case
ListedTag(t) ==
    /\ t.tags.k = "list"
    /\ \E x \in t.tags.v :
          Lower(Strip(x)) \in { <<"s", "a", "n", "c", "t", "i", "o", "n", "e", "d">>,
                                <<"m", "i", "x", "e", "r">> }

\* C16: with a suspicious term in the memo and "sanctioned" or "mixer" among
\* the tags both flags are emitted; whatever the tags, the memo adds
\* 0.20 + 0.05 * count to the sum before the clamp, and whatever the memo, the
\* tags add 0.20, once, also when both tags are there.
C16_MemoAndTagsAdditive ==
    /\ \A i \in Calls :
          LET c == riskCalls[i]
          IN (Returned(c) /\ Hits(c.tx) > 0 /\ ListedTag(c.tx)) =>
                /\ HasFlag(c, "suspicious_memo")
                /\ HasFlag(c, "sanctioned_or_mixer")
    /\ \A i, j \in Calls :
          LET c == riskCalls[i]
              d == riskCalls[j]
          IN (Returned(c) /\ Returned(d)) =>
                /\ ( /\ SameExcept(c.tx, d.tx, "tags")
                     /\ ListedTag(c.tx) /\ ~ListedTag(d.tx) )
                   => c.res.raw = d.res.raw + 20
                /\ ( /\ SameExcept(c.tx, d.tx, "memo")
                     /\ Hits(c.tx) > 0 /\ Hits(d.tx) = 0 )
                   => c.res.raw = d.res.raw + 20 + 5 * Hits(c.tx)

\* a memo with two suspicious terms and both tags, and the same transaction
\* without tags: both flags, and 0.20 between the two sums
C16_Witness ==
    /\ Len(riskCalls) = 2
    /\ Returned(riskCalls[1]) /\ Returned(riskCalls[2])
    /\ Hits(riskCalls[1].tx) = 2
    /\ ListedTag(riskCalls[1].tx) /\ Cardinality(riskCalls[1].tx.tags.v) = 2
    /\ HasFlag(riskCalls[1], "suspicious_memo")
    /\ HasFlag(riskCalls[1], "sanctioned_or_mixer")
    /\ SameExcept(riskCalls[1].tx, riskCalls[2].tx, "tags")
    /\ ~ListedTag(riskCalls[2].tx)
    /\ riskCalls[1].res.raw = riskCalls[2].res.raw + 20

\* the place of a flag's rule in the order of the rules
FlagRank(flag) ==
    CASE flag \in {"outgoing", "incoming"} -> 1
      [] flag = "medium_outgoing" -> 2
      [] flag = "large_outgoing" -> 3
      [] flag = "very_large_outgoing" -> 4
      [] flag = "fee_present" -> 5
      [] flag = "high_fee_ratio" -> 6
      [] flag = "very_high_fee_ratio" -> 7
      [] flag = "suspicious_memo" -> 8
      [] flag = "sanctioned_or_mixer" -> 9
      [] flag = "internal_transfer" -> 10
      [] OTHER -> 0

\* C17: the flags score_risk returns are known flags in the order of their
\* rules, each at most once, and "outgoing" and "incoming" never both.
C17_FlagsInRuleOrder ==
    \A i \in Calls :
        LET fl == riskCalls[i].res.flags
        IN Returned(riskCalls[i]) =>
              /\ \A k \in 1..Len(fl) : FlagRank(fl[k]) > 0
              /\ \A k \in 1..(Len(fl) - 1) : FlagRank(fl[k]) < FlagRank(fl[k + 1])

\* a call that returned seven flags
C17_Witness ==
    \E i \in Calls :
        /\ Returned(riskCalls[i])
        /\ Len(riskCalls[i].res.flags) >= 7

\* the fee as the scorer reads it is above zero
FeePositive(t) ==
    LET f == guardian_as_decimal(t.fee)
    IN (f.k = "fin" /\ f.v > 0) \/ (f.k = "inf" /\ f.v > 0)
\* the amount as the scorer reads it is zero
AmountZero(t) == guardian_as_decimal(t.amount) = Fin(0)
\* fee > 0, amount # 0 and fee / |amount| > num / den
FeeRatioAbove(t, num, den) ==
    LET f == guardian_as_decimal(t.fee)
        a == guardian_as_decimal(t.amount)
    IN /\ FeePositive(t) /\ ~AmountZero(t)
       /\ \/ f.k = "fin" /\ a.k = "fin" /\ f.v * den > num * Abs(a.v)
          \/ f.k = "inf" /\ a.k = "fin"
FeeFlags(c) ==
    { c.res.flags[i] : i \in 1..Len(c.res.flags) }
        \cap {"fee_present", "high_fee_ratio", "very_high_fee_ratio"}

\* C23: fee_present is flagged iff fee > 0, high_fee_ratio iff moreover the
\* amount is not zero and fee / |amount| > 0.01, very_high_fee_ratio iff that
\* ratio > 0.05, both strictly; so each flag implies the one before it, and a
\* transaction with fee > 0 and amount = 0 returns with fee_present alone.
C23_FeeThresholdsStrictNested ==
    \A i \in Calls :
        LET c == riskCalls[i]
        IN /\ Returned(c) =>
                /\ HasFlag(c, "fee_present") <=> FeePositive(c.tx)
                /\ HasFlag(c, "high_fee_ratio") <=> FeeRatioAbove(c.tx, 1, 100)
                /\ HasFlag(c, "very_high_fee_ratio") <=> FeeRatioAbove(c.tx, 5, 100)
                /\ HasFlag(c, "very_high_fee_ratio") => HasFlag(c, "high_fee_ratio")
                /\ HasFlag(c, "high_fee_ratio") => HasFlag(c, "fee_present")
           /\ (FeePositive(c.tx) /\ AmountZero(c.tx)) =>
                Returned(c) /\ FeeFlags(c) = {"fee_present"}

\* a ratio of exactly 0.01 with fee_present alone, then a ratio of exactly
\* 0.05 with high_fee_ratio and without very_high_fee_ratio
C23_Witness ==
    /\ Len(riskCalls) = 2
    /\ riskCalls[1].tx.fee = Num(1) /\ riskCalls[1].tx.amount = Num(100)
    /\ Returned(riskCalls[1]) /\ FeeFlags(riskCalls[1]) = {"fee_present"}
    /\ riskCalls[2].tx.fee = Num(1) /\ riskCalls[2].tx.amount = Num(-20)
    /\ Returned(riskCalls[2])
    /\ FeeFlags(riskCalls[2]) = {"fee_present", "high_fee_ratio"}

\* the number of places of the memo, trimmed and in lower case, where one of
\* the suspicious terms begins
Occurrences(t) ==
    LET m == IF t.memo.k = "str" THEN Lower(Strip(t.memo.v)) ELSE <<>>
    IN Cardinality({ p \in SUSPICIOUS_WORDS \X (1..Len(m)) : OccursAt(p[1], m, p[2]) })

\* C24: suspicious_memo is flagged exactly when a suspicious term occurs in
\* the memo, and the memo then adds 0.20 + 0.05 * count to the sum before the
\* clamp, count being the number of occurrences of the terms, an occurrence
\* of a term already seen counted again.
C24_MemoCountsOccurrences ==
    /\ \A i \in Calls :
          LET c == riskCalls[i]
          IN Returned(c) => (HasFlag(c, "suspicious_memo") <=> Occurrences(c.tx) > 0)
    /\ \A i, j \in Calls :
          LET c == riskCalls[i]
              d == riskCalls[j]
          IN ( /\ Returned(c) /\ Returned(d)
               /\ SameExcept(c.tx, d.tx, "memo")
               /\ Occurrences(c.tx) > 0 /\ Occurrences(d.tx) = 0 )
             => c.res.raw = d.res.raw + 20 + 5 * Occurrences(c.tx)

\* the direction, trimmed and in lower case, is an inbound word
IsIncoming(t) == t.direction.k = "str" /\ Lower(Strip(t.direction.v)) \in IN_WORDS
\* the direction is in neither list of words
NoDirection(t) ==
    t.direction.k = "str" => Lower(Strip(t.direction.v)) \notin IN_WORDS \cup OUT_WORDS
\* the fee as the scorer reads it is zero
FeeZero(t) == guardian_as_decimal(t.fee) = Fin(0)
OutgoingFlags == {"outgoing", "medium_outgoing", "large_outgoing", "very_large_outgoing"}

\* C25: an inbound transaction is flagged incoming and never outgoing,
\* medium_outgoing, large_outgoing or very_large_outgoing; the direction takes
\* 0.05 from the sum before the clamp; with a fee of zero the call returns
\* the same score and flags whatever the amount; and with no other signal the
\* score is 0.05 and incoming the only flag.
C25_InboundNoMagnitude ==
    /\ \A i \in Calls :
          LET c == riskCalls[i]
          IN IsIncoming(c.tx) =>
                /\ Returned(c) =>
                      /\ HasFlag(c, "incoming")
                      /\ \A f \in OutgoingFlags : ~HasFlag(c, f)
                /\ FeeZero(c.tx) => Returned(c)
                /\ Plain(c.tx) =>
                      /\ c.res.score = FloatOfDecimal(5)
                      /\ c.res.flags = <<"incoming">>
    /\ \A i, j \in Calls :
          LET c == riskCalls[i]
              d == riskCalls[j]
          IN /\ ( /\ Returned(c) /\ Returned(d)
                  /\ SameExcept(c.tx, d.tx, "direction")
                  /\ IsIncoming(c.tx) /\ NoDirection(d.tx) )
                => c.res.raw = d.res.raw - 5
             /\ ( /\ SameExcept(c.tx, d.tx, "amount")
                  /\ IsIncoming(c.tx) /\ FeeZero(c.tx) )
                => c.res = d.res

\* an inbound transaction without another signal scored with amount 10 and
\* with amount 10001: 0.05 both times
C25_Witness ==
    /\ Len(riskCalls) = 2
    /\ IsIncoming(riskCalls[1].tx) /\ Plain(riskCalls[1].tx)
    /\ riskCalls[1].tx.amount = Num(10)
    /\ riskCalls[2].tx = [riskCalls[1].tx EXCEPT !.amount = Num(10001)]
    /\ riskCalls[1].res.score = FloatOfDecimal(5)
    /\ riskCalls[2].res = riskCalls[1].res

---------------------------------------------------------------------------
(* Statements about concurrent calls, checked under SpecConc *)

\* what the call of a frame returns when it runs alone
Alone(f) ==
    IF f.op = "risk" THEN score_risk(f.tx)
    ELSE tag_category(f.tx, f.book, KEYWORD_PATTERNS, PRIORITY)

\* C19: whatever the interleaving of the threads' score_risk and tag_category
\* calls, every call returns (or raises) what it returns when run alone.
C19_ConcurrentCallsAsAlone ==
    \A th \in Threads :
        frames[th].pc = "done" => frames[th].out = Alone(frames[th])

\* a score_risk call and a tag_category call that ran interleaved, both
\* returned
C19_Witness ==
    \E a, b \in Threads :
        /\ frames[a].pc = "done" /\ frames[b].pc = "done"
        /\ frames[a].op = "risk" /\ frames[b].op = "tag"
        /\ frames[a].overlap /\ frames[b].overlap
        /\ frames[a].out.status = "ok" /\ frames[b].out.status = "ok"
        /\ frames[b].out.results # <<>>

\* C20: no step of a score_risk or tag_category call changes the loaded
\* configuration (KEYWORDS, PRIORITY, KEYWORD_PATTERNS, which are the DEFAULT_*
\* tables when no file overrides them), the AddressBook or any field of the
\* transaction of any call in progress.
C20_CallsChangeNothing ==
    [][ /\ imported = "ok" =>
              /\ KEYWORDS' = KEYWORDS
              /\ PRIORITY' = PRIORITY
              /\ KEYWORD_PATTERNS' = KEYWORD_PATTERNS
        /\ \A th \in Threads :
              frames[th].pc # "idle" =>
                  /\ frames'[th].tx = frames[th].tx
                  /\ frames'[th].book = frames[th].book ]_vars

\* a tag_category call has returned and the configuration is still what the
\* loader gave, the transaction and the book what the caller passed
C20_Witness ==
    /\ imported = "ok"
    /\ KEYWORDS = load_tagging_config(file).kw
    /\ PRIORITY = load_tagging_config(file).pr
    /\ file.exists => KEYWORDS # DEFAULT_KEYWORDS
    /\ \E th \in Threads :
          /\ frames[th].op = "tag" /\ frames[th].pc = "done"
          /\ frames[th].out.status = "ok"
          /\ [tx |-> frames[th].tx, book |-> frames[th].book] \in ConcTagCalls

---------------------------------------------------------------------------
(* Statements about a record given to both functions *)

SeedCalls == 1..Len(riskCalls)
\* the direction of an object, trimmed and in lower case
Direction(t) == IF t.direction.k = "str" THEN Lower(Strip(t.direction.v)) ELSE <<>>
\* the result lists a reason of this text
DirectionReason(c, text) ==
    \E i \in 1..Len(c.res.results) : \E k \in 1..Len(c.res.results[i].reasons) :
        c.res.results[i].reasons[k].text = text
\* fee and amount are numbers that are not NaN
OrdinaryNumbers(t) == t.fee.k # "nan" /\ t.amount.k # "nan"

\* C26: for a transaction given as an object, score_risk flags incoming and
\* tag_categories gives the inbound signal exactly when the direction, trimmed
\* and in lower case, is in, incoming or credit; outgoing and the outbound
\* signal exactly when it is out, outgoing or debit; for any other direction,
\* empty or missing included, there is no direction flag, no magnitude flag
\* or bump and no direction signal; and with fee and amount not NaN both calls
\* return whatever the direction.
C26_DirectionConsistent ==
    \A n \in SeedCalls :
        LET r == riskCalls[n]
            g == tagCalls[n]
            t == r.tx
        IN ~IsDict(t) =>
            /\ OrdinaryNumbers(t) => Returned(r) /\ TReturned(g)
            /\ Returned(r) =>
                  /\ HasFlag(r, "incoming") <=> Direction(t) \in IN_WORDS
                  /\ HasFlag(r, "outgoing") <=> Direction(t) \in OUT_WORDS
                  /\ Direction(t) \notin OUT_WORDS =>
                        \A f \in OutgoingFlags : ~HasFlag(r, f)
                  /\ ( /\ Direction(t) \notin IN_WORDS \cup OUT_WORDS
                       /\ t.fee = Num(0) /\ t.memo = Str(<<>>) )
                     => r.res.raw = 10 /\ r.res.flags = <<>>
            /\ TReturned(g) =>
                  /\ DirectionReason(g, "Direction suggests inbound")
                        <=> Direction(t) \in IN_WORDS
                  /\ DirectionReason(g, "Direction suggests outbound")
                        <=> Direction(t) \in OUT_WORDS

\* "Credit" taken as inbound by both functions
C26_Witness ==
    \E n \in SeedCalls :
        LET r == riskCalls[n]
            g == tagCalls[n]
        IN /\ ~IsDict(r.tx) /\ Returned(r) /\ TReturned(g)
           /\ r.tx.direction = Str(<<"C", "r", "e", "d", "i", "t">>)
           /\ HasFlag(r, "incoming")
           /\ DirectionReason(g, "Direction suggests inbound")

\* C29: a transaction given as a dict gets from score_risk and from
\* tag_category the results that the object with the same field values gets.
C29_DictAsObject ==
    \A i, j \in SeedCalls :
        (~IsDict(riskCalls[i].tx) /\ riskCalls[j].tx = Dict(riskCalls[i].tx)) =>
            /\ riskCalls[j].res = riskCalls[i].res
            /\ tagCalls[j].res.status = tagCalls[i].res.status
            /\ tagCalls[j].res.category = tagCalls[i].res.category

===========================================================================
